---- MODULE Spec2Model ----
(***************************************************************************)
(* WinCleanCli: the removal executor (utils/fs.ts removeItem, removeItems, *)
(* emptyDirectory and the scanners' clean methods), the bounded worker     *)
(* pool (runWithConcurrencyLimit) and the recursive size aggregation       *)
(* (getDirectorySize), as state machines.                                  *)
(*                                                                         *)
(* A path is the sequence of its characters, so that normalize,            *)
(* toLowerCase and startsWith act on what the code acts on.                *)
(***************************************************************************)
EXTENDS Integers, Sequences, FiniteSets, TLC

(***************************************************************************)
(* Bounds of the model.                                                    *)
(***************************************************************************)
\* longest items list handed to a clean call
MaxItems == 2
\* largest size recorded in an item at scan time
MaxSize == 1
\* most entries (the directory itself included) of a directory tree
MaxNodes == 4
\* largest capacity of a worker pool other than that of getDirectorySize
MaxConcurrency == 2
\* most entries (the directory itself included) of a tree that is enumerated
MaxEntries == 3

(***************************************************************************)
(* Strings and paths (utils/paths.ts, node:path win32).                    *)
(***************************************************************************)
UpperChars == <<"A","B","C","D","E","F","G","H","I","J","K","L","M",
                "N","O","P","Q","R","S","T","U","V","W","X","Y","Z">>

LowerChars == <<"a","b","c","d","e","f","g","h","i","j","k","l","m",
                "n","o","p","q","r","s","t","u","v","w","x","y","z">>

\* the lower-case letter of each upper-case letter
lowerOf == [c \in {UpperChars[k] : k \in 1..26} |->
              LowerChars[CHOOSE k \in 1..26 : UpperChars[k] = c]]

\* String.prototype.toLowerCase, one character
toLowerChar(c) == IF c \in DOMAIN lowerOf THEN lowerOf[c] ELSE c

\* String.prototype.toLowerCase
toLowerCase(s) == [k \in 1..Len(s) |-> toLowerChar(s[k])]

\* String.prototype.startsWith
startsWith(s, p) == Len(p) <= Len(s) /\ SubSeq(s, 1, Len(p)) = p

Sep == "\\"

\* the separators of a win32 path all become backslashes
toBackslashes(s) == [k \in 1..Len(s) |-> IF s[k] = "/" THEN Sep ELSE s[k]]

\* the segments of s between separators, empty segments included
RECURSIVE splitFrom(_, _, _)
splitFrom(s, k, cur) ==
  IF k > Len(s) THEN <<cur>>
  ELSE IF s[k] = Sep THEN <<cur>> \o splitFrom(s, k + 1, <<>>)
  ELSE splitFrom(s, k + 1, Append(cur, s[k]))

\* resolution of "." and ".." segments and of repeated separators; the
\* first segment (the drive of an absolute path) is never popped
RECURSIVE resolveSegments(_, _)
resolveSegments(segs, acc) ==
  IF segs = <<>> THEN acc
  ELSE LET h == Head(segs)
           t == Tail(segs)
       IN IF h = <<>> \/ h = <<".">> THEN resolveSegments(t, acc)
          ELSE IF h = <<".", ".">>
               THEN resolveSegments(t, IF Len(acc) > 1
                                       THEN SubSeq(acc, 1, Len(acc) - 1)
                                       ELSE acc)
               ELSE resolveSegments(t, Append(acc, h))

RECURSIVE joinSegments(_)
joinSegments(segs) ==
  IF segs = <<>> THEN <<>>
  ELSE IF Len(segs) = 1 THEN Head(segs)
  ELSE Head(segs) \o <<Sep>> \o joinSegments(Tail(segs))

\* path.normalize of a drive-letter path: a trailing separator is kept
normalize(p) ==
  LET s    == toBackslashes(p)
      segs == resolveSegments(splitFrom(s, 1, <<>>), <<>>)
      body == joinSegments(segs)
  IN IF Len(s) > 0 /\ s[Len(s)] = Sep /\ body # <<>>
     THEN body \o <<Sep>>
     ELSE body

\* path.join(dir, name)
join(dir, name) == normalize(dir \o <<Sep>> \o name)

\* the deny list of isSystemPath
systemPaths ==
  << <<"c",":",Sep,"w","i","n","d","o","w","s">>,
     <<"c",":",Sep,"p","r","o","g","r","a","m"," ","f","i","l","e","s">>,
     <<"c",":",Sep,"p","r","o","g","r","a","m"," ","f","i","l","e","s",
       " ","(","x","8","6",")">>,
     <<"c",":",Sep,"p","r","o","g","r","a","m","d","a","t","a">>,
     <<"c",":",Sep,"$","r","e","c","y","c","l","e",".","b","i","n">>,
     <<"c",":",Sep,"s","y","s","t","e","m"," ","v","o","l","u","m","e",
       " ","i","n","f","o","r","m","a","t","i","o","n">>,
     <<"c",":",Sep,"r","e","c","o","v","e","r","y">>,
     <<"c",":",Sep,"b","o","o","t">> >>

isSystemPath(targetPath) ==
  LET normalized == toLowerCase(normalize(targetPath))
  IN \E k \in 1..Len(systemPaths) : startsWith(normalized, systemPaths[k])

(***************************************************************************)
(* The file system the removal executor works on.                          *)
(***************************************************************************)
\* The paths of the model are named; pathText gives each its characters:
\* C:\Windows\Temp (PATHS.systemTemp), a directory; a user directory outside
\* the deny list (it stands for PATHS.userTemp); a user file; and the path
\* DockerScanner.scan gives its items, docker:images
pathText ==
  [SysTemp  |-> <<"C",":",Sep,"W","i","n","d","o","w","s",Sep,"T","e","m","p">>,
   UserDir  |-> <<"D",":",Sep,"t">>,
   UserFile |-> <<"D",":",Sep,"f">>,
   Docker   |-> <<"d","o","c","k","e","r",":","i","m","a","g","e","s">>]

\* the paths of the file system, and those of the items of DockerScanner
ItemPaths == {"SysTemp", "UserDir", "UserFile"}
DockerPaths == {"Docker"}

\* the names a directory may hold, in listing order, and the size of each
EntryOrder == <<"a", "b">>
EntryNames == {EntryOrder[k] : k \in 1..Len(EntryOrder)}
entrySize(name) == IF name = "a" THEN 1 ELSE 2

\* the path rm is called on: an item's path (name "") or join(dir, name)
PathRef(d, n) == [dir |-> d, name |-> n]
RefText(ref) ==
  IF ref.name = "" THEN pathText[ref.dir]
  ELSE join(pathText[ref.dir], <<ref.name>>)

\* isSystemPath of every path of the model
isSystemRef ==
  [ref \in {PathRef(d, n) : d \in DOMAIN pathText, n \in {""} \cup EntryNames} |->
     isSystemPath(RefText(ref))]

NoNode == [kind |-> "none", size |-> 0, entries |-> {}]
FileNode(n) == [kind |-> "file", size |-> n, entries |-> {}]
DirNode(es) == [kind |-> "dir", size |-> 0, entries |-> es]

RECURSIVE SumSet(_)
\* the sum of the sizes of a set of entries
SumSet(es) ==
  IF es = {} THEN 0
  ELSE LET e == CHOOSE x \in es : TRUE
       IN entrySize(e) + SumSet(es \ {e})

\* getSize on the file system fsys: 0 when stat fails, the size of a file,
\* the total of a directory
getSize(fsys, path) ==
  IF path \notin DOMAIN fsys THEN 0
  ELSE CASE fsys[path].kind = "file" -> fsys[path].size
         [] fsys[path].kind = "dir"  -> SumSet(fsys[path].entries)
         [] OTHER                    -> 0

\* the codes rm may fail with
RmErrorCodes == {"EPERM", "EBUSY"}

\* rm without force: a missing path is an error
RmResultsNoForce(fsys, path) ==
  IF path \notin DOMAIN fsys \/ fsys[path].kind = "none"
  THEN {[ok |-> FALSE, code |-> "ENOENT", fs |-> fsys]}
  ELSE {[ok |-> TRUE, code |-> "", fs |-> [fsys EXCEPT ![path] = NoNode]]}

\* rm(path, {recursive: true, force: true}): every result the call may have.
\* A missing path is no error (force); a failed recursive delete of a
\* directory may have removed some of its entries.
RmResults(fsys, path) ==
  IF path \notin DOMAIN fsys \/ fsys[path].kind = "none"
  THEN {[ok |-> TRUE, code |-> "", fs |-> fsys]}
  ELSE {[ok |-> TRUE, code |-> "", fs |-> [fsys EXCEPT ![path] = NoNode]]}
       \cup
       {[ok |-> FALSE, code |-> c,
         fs |-> IF fsys[path].kind = "dir"
                THEN [fsys EXCEPT ![path] = DirNode(left)]
                ELSE fsys] :
          c \in RmErrorCodes,
          left \in IF fsys[path].kind = "dir"
                   THEN SUBSET fsys[path].entries
                   ELSE {{}}}

\* the entries of a directory in listing order
RECURSIVE listFrom(_, _)
listFrom(es, k) ==
  IF k > Len(EntryOrder) THEN <<>>
  ELSE (IF EntryOrder[k] \in es THEN <<EntryOrder[k]>> ELSE <<>>)
       \o listFrom(es, k + 1)

readdir(fsys, path) == listFrom(fsys[path].entries, 1)

CanReaddir(fsys, path) == path \in DOMAIN fsys /\ fsys[path].kind = "dir"

Max(a, b) == IF a >= b THEN a ELSE b

(***************************************************************************)
(* removeItem, emptyDirectory (utils/fs.ts).                               *)
(***************************************************************************)
\* removeItem(path, dryRun), r being the result rm has if it is called:
\* the value returned, the branch taken, whether rm was called, and the
\* file system afterwards
removeItemNoGuard(fsys, path, dry, r) ==
  IF dry
  THEN [removed |-> TRUE, state |-> "Simulated", rm |-> FALSE, fs |-> fsys]
  ELSE IF r.ok
       THEN [removed |-> TRUE, state |-> "Removed", rm |-> TRUE, fs |-> r.fs]
       ELSE [removed |-> FALSE, state |-> "Failed", rm |-> TRUE, fs |-> r.fs]

removeItemIgnoreDryRun(fsys, path, dry, r) ==
  IF isSystemRef[PathRef(path, "")]
  THEN [removed |-> FALSE, state |-> "Skipped", rm |-> FALSE, fs |-> fsys]
  ELSE IF r.ok
       THEN [removed |-> TRUE, state |-> "Removed", rm |-> TRUE, fs |-> r.fs]
       ELSE [removed |-> FALSE, state |-> "Failed", rm |-> TRUE, fs |-> r.fs]

removeItem(fsys, path, dry, r) ==
  IF isSystemRef[PathRef(path, "")]
  THEN [removed |-> FALSE, state |-> "Skipped", rm |-> FALSE, fs |-> fsys]
  ELSE IF dry
       THEN [removed |-> TRUE, state |-> "Simulated", rm |-> FALSE, fs |-> fsys]
       ELSE IF r.ok
            THEN [removed |-> TRUE, state |-> "Removed", rm |-> TRUE, fs |-> r.fs]
            ELSE [removed |-> FALSE, state |-> "Failed", rm |-> TRUE, fs |-> r.fs]

\* emptyDirectory(dirPath, dryRun), failing being the entries whose rm
\* throws: the counts returned, the paths rm was called on, in order, and
\* the file system afterwards
emptyDirectory(fsys, dirPath, dry, failing) ==
  IF dry
  THEN [success |-> IF CanReaddir(fsys, dirPath)
                    THEN Len(readdir(fsys, dirPath)) ELSE 0,
        failed  |-> 0,
        calls   |-> <<>>,
        fs      |-> fsys]
  ELSE IF ~CanReaddir(fsys, dirPath)
       THEN [success |-> 0, failed |-> 0, calls |-> <<>>, fs |-> fsys]
       ELSE LET entries == readdir(fsys, dirPath)
            IN [success |-> Cardinality(fsys[dirPath].entries \ failing),
                failed  |-> Cardinality(fsys[dirPath].entries \cap failing),
                calls   |-> [k \in 1..Len(entries) |-> PathRef(dirPath, entries[k])],
                fs      |-> [fsys EXCEPT ![dirPath] =
                               DirNode(fsys[dirPath].entries \cap failing)]]

(***************************************************************************)
(* The removal executor: one clean call at a time on the file system fs.   *)
(***************************************************************************)
VARIABLES
  fs,         \* the file system: the node at each path of ItemPaths
  fs0,        \* the file system when the running call began
  op,         \* the call: "none", "removeItems", "scannerClean", "dockerClean"
  pc,         \* "idle", "loop" (between two items), "done" (returned)
  items,      \* the items argument, each [path, size]
  dryRun,     \* the dryRun argument
  idx,        \* the loop index: the next item, from 1
  status,     \* per item, how its removal has ended ("Pending" before): for
              \* a scanner's clean "Removed" when every entry was removed,
              \* "Failed" when one was not, "Nothing" when there was none
  rmCalls,    \* the rm calls issued by the call, in order: [item, path]
  pruneCalls, \* the docker prune commands executed by the call
  ret         \* the counters of the call, its result once pc = "done"

rmVars == <<fs, fs0, op, pc, items, dryRun, idx, status, rmCalls, pruneCalls, ret>>

\* The variables of runWithConcurrencyLimit and getDirectorySize.
VARIABLES
  tree,        \* the directory tree: per entry [kind, ok, parent]
  concurrency, \* the capacity the pools are run with
  sz           \* the state of the calls, per entry of the tree:
               \*   st        "idle", "io" (its stat or its listing is in
               \*             flight), "pool" (its tasks run), "done"
               \*   value     what its task has returned
               \*   next      the index of the next task of its pool
               \*   executing the set executing of its pool
               \*   results   the array results of its pool
               \*   pos       where its pool awaits: "race", "resume" (the
               \*             race is won, the loop not yet resumed), "all"
               \*   runs      how many times its task was started
               \* and issued, the operations in flight in the order issued

szVars == <<tree, concurrency, sz>>

\* The variables of a call of a function that runs alone (the enumerator, the
\* scanners' scan, the duplicate detector).
VARIABLES
  inp,         \* the call: its function (fn) and its arguments
  answer       \* what the call has returned; NoOut before

fnVars == <<inp, answer>>

\* The variable of the scanner harness.
VARIABLES
  h            \* the state of a runScans call, see HarnessInit

hVars == <<h>>

\* The variable of the commands (cleanCommand, interactiveCommand).
VARIABLES
  cmd          \* the state of a command, see CleanCommand

cVars == <<cmd>>

\* The variable of the cleaning profiles.
VARIABLES
  prof         \* cachedProfiles and the content of the profiles file

pVars == <<prof>>

\* what the actions of each machine leave alone
otherThanRm == <<szVars, fnVars, hVars, cVars, pVars>>
otherThanSz == <<rmVars, fnVars, hVars, cVars, pVars>>
otherThanFn == <<rmVars, szVars, hVars, cVars, pVars>>
otherThanH == <<rmVars, szVars, fnVars, cVars, pVars>>
otherThanCmd == <<rmVars, szVars, fnVars, hVars, pVars>>
otherThanProf == <<rmVars, szVars, fnVars, hVars, cVars>>

\* no command is running
CIdle == cmd = [pc |-> "idle"]

\* the profiles are not in use: no cache, no profiles file
PIdle == prof = [cache |-> <<>>, file |-> <<>>]

Item == [path : ItemPaths, size : 0..MaxSize]
DockerItem == [path : DockerPaths, size : 0..MaxSize]

RECURSIVE SeqsUpTo(_, _)
\* the sequences over S of length at most n
SeqsUpTo(S, n) ==
  IF n = 0 THEN {<<>>}
  ELSE LET shorter == SeqsUpTo(S, n - 1)
       IN shorter \cup {Append(q, x) : q \in {t \in shorter : Len(t) = n - 1}, x \in S}

ItemLists == SeqsUpTo(Item, MaxItems)
DockerItemLists == SeqsUpTo(DockerItem, MaxItems)

\* the file systems a call may find
InitFs ==
  {[p \in ItemPaths |->
      CASE p = "SysTemp"  -> sys
        [] p = "UserDir"  -> usr
        [] OTHER        -> fil] :
     sys \in {NoNode} \cup {DirNode(es) : es \in SUBSET EntryNames},
     usr \in {NoNode} \cup {DirNode(es) : es \in SUBSET EntryNames},
     fil \in {NoNode, FileNode(MaxSize)}}

ret0 == [success |-> 0, failed |-> 0, freedSpace |-> 0,
         cleanedItems |-> 0, errors |-> <<>>]

RmInit ==
  /\ fs \in InitFs
  /\ fs0 = fs
  /\ op = "none"
  /\ pc = "idle"
  /\ items = <<>>
  /\ dryRun = FALSE
  /\ idx = 1
  /\ status = <<>>
  /\ rmCalls = <<>>
  /\ pruneCalls = 0
  /\ ret = ret0

\* a clean call begins: removeItems(items, dryRun), the clean of an
\* emptyDirectory-based scanner, or DockerScanner.clean
Call(o, its, dry) ==
  /\ pc = "idle"
  /\ op' = o
  /\ pc' = "loop"
  /\ items' = its
  /\ dryRun' = dry
  /\ idx' = 1
  /\ status' = [k \in 1..Len(its) |-> "Pending"]
  /\ rmCalls' = <<>>
  /\ pruneCalls' = 0
  /\ ret' = ret0
  /\ fs0' = fs
  /\ UNCHANGED fs
  /\ UNCHANGED otherThanRm

\* one iteration of the loop of removeItems that stops at the first item
\* removeItem returns false for
RemoveItemsStepAbort ==
  /\ op = "removeItems" /\ pc = "loop" /\ idx <= Len(items)
  /\ \E r \in RmResults(fs, items[idx].path) :
       LET item == items[idx]
           out  == removeItem(fs, item.path, dryRun, r)
       IN /\ fs' = out.fs
          /\ status' = [status EXCEPT ![idx] = out.state]
          /\ rmCalls' = IF out.rm
                        THEN Append(rmCalls, [item |-> idx, path |-> PathRef(item.path, "")])
                        ELSE rmCalls
          /\ ret' = IF out.removed
                    THEN [ret EXCEPT !.success = @ + 1,
                                     !.freedSpace = @ + item.size]
                    ELSE [ret EXCEPT !.failed = @ + 1]
          /\ idx' = IF out.removed THEN idx + 1 ELSE Len(items) + 1
  /\ UNCHANGED <<fs0, op, pc, items, dryRun, pruneCalls>>
  /\ UNCHANGED otherThanRm

\* one iteration of the loop of removeItems: removeItem on items[idx], then
\* the counters
RemoveItemsStep ==
  /\ op = "removeItems" /\ pc = "loop" /\ idx <= Len(items)
  /\ \E r \in RmResults(fs, items[idx].path) :
       LET item == items[idx]
           out  == removeItem(fs, item.path, dryRun, r)
       IN /\ fs' = out.fs
          /\ status' = [status EXCEPT ![idx] = out.state]
          /\ rmCalls' = IF out.rm
                        THEN Append(rmCalls, [item |-> idx, path |-> PathRef(item.path, "")])
                        ELSE rmCalls
          /\ ret' = IF out.removed
                    THEN [ret EXCEPT !.success = @ + 1,
                                     !.freedSpace = @ + item.size]
                    ELSE [ret EXCEPT !.failed = @ + 1]
          /\ idx' = idx + 1
  /\ UNCHANGED <<fs0, op, pc, items, dryRun, pruneCalls>>
  /\ UNCHANGED otherThanRm

\* the loop of removeItems, or of a scanner's clean, is over: the call returns
LoopReturn ==
  /\ op \in {"removeItems", "scannerClean"} /\ pc = "loop" /\ idx > Len(items)
  /\ pc' = "done"
  /\ UNCHANGED <<fs, fs0, op, items, dryRun, idx, status, rmCalls, pruneCalls, ret>>
  /\ UNCHANGED otherThanRm

\* one iteration of the loop of TempFilesScanner.clean (SystemLogsScanner
\* and WindowsUpdateScanner have the same clean): emptyDirectory on the
\* item's path, the freed bytes measured around it
ScannerCleanStep ==
  /\ op = "scannerClean" /\ pc = "loop" /\ idx <= Len(items)
  /\ \E failing \in SUBSET EntryNames :
       LET item       == items[idx]
           sizeBefore == IF item.size # 0 THEN item.size
                         ELSE getSize(fs, item.path)
           result     == emptyDirectory(fs, item.path, dryRun, failing)
           sizeAfter  == IF dryRun THEN sizeBefore
                         ELSE getSize(result.fs, item.path)
       IN /\ fs' = result.fs
          /\ status' = [status EXCEPT ![idx] =
                          IF dryRun THEN "Simulated"
                          ELSE IF result.failed > 0 THEN "Failed"
                          ELSE IF result.success > 0 THEN "Removed"
                          ELSE "Nothing"]
          /\ rmCalls' = rmCalls \o
                          [k \in 1..Len(result.calls) |->
                             [item |-> idx, path |-> result.calls[k]]]
          /\ ret' = [ret EXCEPT
                       !.freedSpace = @ + Max(0, sizeBefore - sizeAfter),
                       !.cleanedItems = @ + result.success,
                       !.errors = IF result.failed > 0
                                  THEN Append(@, [item |-> idx,
                                                  failed |-> result.failed])
                                  ELSE @]
  /\ idx' = idx + 1
  /\ UNCHANGED <<fs0, op, pc, items, dryRun, pruneCalls>>
  /\ UNCHANGED otherThanRm

RECURSIVE SumSizes(_, _)
\* the sum of the recorded sizes of the items of its at the indices in ks
SumSizes(its, ks) ==
  IF ks = {} THEN 0
  ELSE LET k == CHOOSE x \in ks : TRUE
       IN its[k].size + SumSizes(its, ks \ {k})

\* DockerScanner.clean: a dry run returns the recorded totals; a real run
\* executes one docker system prune, which may fail
DockerClean ==
  /\ op = "dockerClean" /\ pc = "loop"
  /\ pc' = "done"
  /\ IF dryRun
     THEN /\ ret' = [ret EXCEPT !.cleanedItems = Len(items),
                                !.freedSpace = SumSizes(items, DOMAIN items)]
          /\ UNCHANGED pruneCalls
     ELSE /\ pruneCalls' = pruneCalls + 1
          /\ \E pruneOk \in BOOLEAN :
               ret' = IF pruneOk
                      THEN [ret EXCEPT !.cleanedItems = Len(items),
                                       !.freedSpace = SumSizes(items, DOMAIN items)]
                      ELSE [ret EXCEPT !.errors = <<[item |-> 0, failed |-> 0]>>]
  /\ UNCHANGED <<fs, fs0, op, items, dryRun, idx, status, rmCalls>>
  /\ UNCHANGED otherThanRm

\* the caller has taken the result and its arguments go out of scope; the
\* next call may begin on the file system as it is now
Return ==
  /\ pc = "done"
  /\ pc' = "idle"
  /\ op' = "none"
  /\ items' = <<>>
  /\ dryRun' = FALSE
  /\ idx' = 1
  /\ status' = <<>>
  /\ rmCalls' = <<>>
  /\ pruneCalls' = 0
  /\ ret' = ret0
  /\ fs0' = fs
  /\ UNCHANGED fs
  /\ UNCHANGED otherThanRm

RmNext ==
  \/ /\ pc = "idle"
     /\ \/ \E o \in {"removeItems", "scannerClean"},
                its \in ItemLists, dry \in BOOLEAN : Call(o, its, dry)
        \/ \E its \in DockerItemLists, dry \in BOOLEAN :
              Call("dockerClean", its, dry)
  \/ RemoveItemsStep
  \/ ScannerCleanStep
  \/ LoopReturn
  \/ DockerClean
  \/ Return

(***************************************************************************)
(* runWithConcurrencyLimit and getDirectorySize (utils/fs.ts).             *)
(*                                                                         *)
(* A directory tree is a sequence of entries, entry 1 the directory        *)
(* getDirectorySize is called on; an entry names its parent, and the       *)
(* entries of a directory are listed in the order of their numbers.        *)
(* One action is one turn of the event loop: the completion of a stat or   *)
(* of a directory listing together with the promise callbacks it runs, or  *)
(* the continuation of a pool after its await.                             *)
(***************************************************************************)
MAX_CONCURRENT_IO == 20

\* an entry is a file or a directory, whose stat or listing succeeds (ok) or
\* throws, or something else (a link, a device), for which no task is made
EntryOptions ==
  {[kind |-> "file", ok |-> TRUE], [kind |-> "file", ok |-> FALSE],
   [kind |-> "dir", ok |-> TRUE], [kind |-> "dir", ok |-> FALSE],
   [kind |-> "other", ok |-> TRUE]}

RECURSIVE TreesOf(_)
\* the trees of k entries
TreesOf(k) ==
  IF k = 1
  THEN {<<[kind |-> "dir", ok |-> o, parent |-> 0]>> : o \in BOOLEAN}
  ELSE UNION {{Append(t, [kind |-> e.kind, ok |-> e.ok, parent |-> q]) :
                 e \in EntryOptions,
                 q \in {m \in 1..(k - 1) : t[m].kind = "dir"}} :
              t \in TreesOf(k - 1)}

Trees == UNION {TreesOf(k) : k \in 1..MaxNodes}

\* a tree of two directories under the root, the first of a files and the
\* second of b files
WideTree(a, b) ==
  [n \in 1..(3 + a + b) |->
     IF n = 1 THEN [kind |-> "dir", ok |-> TRUE, parent |-> 0]
     ELSE IF n <= 3 THEN [kind |-> "dir", ok |-> TRUE, parent |-> 1]
     ELSE IF n <= 3 + a THEN [kind |-> "file", ok |-> TRUE, parent |-> 2]
     ELSE [kind |-> "file", ok |-> TRUE, parent |-> 3]]

WideTrees ==
  {WideTree(a, b) : a \in {MAX_CONCURRENT_IO, MAX_CONCURRENT_IO + 1}, b \in 0..1}

\* the size of the file that is entry n: distinct powers of two, so that a
\* total tells which files were counted
fileSize(n) == 2 ^ (n - 1)

RECURSIVE tasksFrom(_, _, _)
\* the tasks getDirectorySize makes for directory d: its files and its
\* directories, in listing order
tasksFrom(t, d, n) ==
  IF n > Len(t) THEN <<>>
  ELSE (IF t[n].parent = d /\ t[n].kind \in {"file", "dir"} THEN <<n>> ELSE <<>>)
       \o tasksFrom(t, d, n + 1)

tasksOf(t, d) == tasksFrom(t, d, d + 1)

RECURSIVE SumSeq(_)
\* sizes.reduce((sum, size) => sum + size, 0)
SumSeq(q) == IF q = <<>> THEN 0 ELSE Head(q) + SumSeq(Tail(q))

Without(q, n) == SelectSeq(q, LAMBDA x : x # n)

sz0(t) ==
  [st        |-> [n \in DOMAIN t |-> "idle"],
   value     |-> [n \in DOMAIN t |-> 0],
   next      |-> [n \in DOMAIN t |-> 1],
   executing |-> [n \in DOMAIN t |-> {}],
   results   |-> [n \in DOMAIN t |-> <<>>],
   pos       |-> [n \in DOMAIN t |-> "none"],
   runs      |-> [n \in DOMAIN t |-> 0],
   issued    |-> <<>>]

\* the task of entry c starts: its stat, or the opendir of the directory,
\* is issued
startTask(s, d, c) ==
  [s EXCEPT !.st[c] = "io",
            !.runs[c] = @ + 1,
            !.issued = Append(@, c),
            !.executing[d] = @ \cup {c},
            !.next[d] = @ + 1]

RECURSIVE runLoopOver(_, _, _, _)
\* the loop of runWithConcurrencyLimit whose test is executing.size >
\* concurrency
runLoopOver(t, cap, s, d) ==
  LET ts == tasksOf(t, d)
  IN IF s.next[d] > Len(ts)
     THEN [s EXCEPT !.pos[d] = "all"]
     ELSE LET s1 == startTask(s, d, ts[s.next[d]])
          IN IF Cardinality(s1.executing[d]) > cap
             THEN [s1 EXCEPT !.pos[d] = "race"]
             ELSE runLoopOver(t, cap, s1, d)

RECURSIVE runLoop(_, _, _, _)
\* the loop of runWithConcurrencyLimit for the pool of directory d, from
\* its task next[d], up to its next await: tasks are started until
\* executing.size >= concurrency (await Promise.race) or none is left
\* (await Promise.all)
runLoop(t, cap, s, d) ==
  LET ts == tasksOf(t, d)
  IN IF s.next[d] > Len(ts)
     THEN [s EXCEPT !.pos[d] = "all"]
     ELSE LET s1 == startTask(s, d, ts[s.next[d]])
          IN IF Cardinality(s1.executing[d]) >= cap
             THEN [s1 EXCEPT !.pos[d] = "race"]
             ELSE runLoop(t, cap, s1, d)

\* the then callback of the task of entry c, which has returned v, in the
\* pool of its directory: results.push(result), executing.delete(p); a
\* pending Promise.race is won
settle(t, s, c, v) ==
  LET d == t[c].parent
  IN [s EXCEPT !.results[d] = Append(@, v),
               !.executing[d] = @ \ {c},
               !.pos[d] = IF @ = "race" THEN "resume" ELSE @]

\* getDirectorySize(dirPath) is called: opendir is issued
CallGetDirectorySize ==
  /\ sz.st[1] = "idle"
  /\ sz' = [sz EXCEPT !.st[1] = "io", !.runs[1] = @ + 1, !.issued = Append(@, 1)]
  /\ UNCHANGED <<tree, concurrency>>
  /\ UNCHANGED otherThanSz

\* the stat of file c completes: its task returns the size, or 0 when stat
\* threw, and its then callback runs
CompleteStat(c) ==
  /\ sz.st[c] = "io" /\ tree[c].kind = "file"
  /\ LET v  == IF tree[c].ok THEN fileSize(c) ELSE 0
         s1 == [sz EXCEPT !.st[c] = "done", !.value[c] = v,
                          !.issued = Without(@, c)]
     IN sz' = settle(tree, s1, c, v)
  /\ UNCHANGED <<tree, concurrency>>
  /\ UNCHANGED otherThanSz

\* the listing of directory d completes: its tasks are made and
\* runWithConcurrencyLimit runs its loop up to its first await; when
\* opendir threw, getDirectorySize returns 0
CompleteList(d) ==
  /\ sz.st[d] = "io" /\ tree[d].kind = "dir"
  /\ LET s1 == [sz EXCEPT !.issued = Without(@, d)]
     IN IF tree[d].ok
        THEN sz' = runLoop(tree, concurrency, [s1 EXCEPT !.st[d] = "pool"], d)
        ELSE LET s2 == [s1 EXCEPT !.st[d] = "done", !.value[d] = 0]
             IN sz' = IF d = 1 THEN s2 ELSE settle(tree, s2, d, 0)
  /\ UNCHANGED <<tree, concurrency>>
  /\ UNCHANGED otherThanSz

\* the continuation of the pool of directory d that returns at
\* Promise.all without waiting for the tasks still executing
PoolStepEarly(d) ==
  /\ sz.st[d] = "pool"
  /\ \/ sz.pos[d] = "resume"
     \/ sz.pos[d] = "all"
  /\ IF sz.pos[d] = "resume"
     THEN sz' = runLoop(tree, concurrency, sz, d)
     ELSE LET v  == SumSeq(sz.results[d])
              s1 == [sz EXCEPT !.st[d] = "done", !.value[d] = v, !.pos[d] = "none"]
          IN sz' = IF d = 1 THEN s1 ELSE settle(tree, s1, d, v)
  /\ UNCHANGED <<tree, concurrency>>
  /\ UNCHANGED otherThanSz

\* the continuation of the pool of directory d after its await: the loop
\* resumes once Promise.race is won; once Promise.all is, the results are
\* summed, getDirectorySize returns and the then callback of its task runs
PoolStep(d) ==
  /\ sz.st[d] = "pool"
  /\ \/ sz.pos[d] = "resume"
     \/ sz.pos[d] = "all" /\ sz.executing[d] = {}
  /\ IF sz.pos[d] = "resume"
     THEN sz' = runLoop(tree, concurrency, sz, d)
     ELSE LET v  == SumSeq(sz.results[d])
              s1 == [sz EXCEPT !.st[d] = "done", !.value[d] = v, !.pos[d] = "none"]
          IN sz' = IF d = 1 THEN s1 ELSE settle(tree, s1, d, v)
  /\ UNCHANGED <<tree, concurrency>>
  /\ UNCHANGED otherThanSz

\* getDirectorySize on any tree of the bounds
SizeInit ==
  /\ tree \in Trees
  /\ concurrency = MAX_CONCURRENT_IO
  /\ sz = sz0(tree)

\* the pool with any capacity of the bounds
PoolInit ==
  /\ tree \in Trees
  /\ concurrency \in 1..MaxConcurrency
  /\ sz = sz0(tree)

\* getDirectorySize on a tree of two wide directories
WideInit ==
  /\ tree \in WideTrees
  /\ concurrency = MAX_CONCURRENT_IO
  /\ sz = sz0(tree)

SizeNext ==
  \/ CallGetDirectorySize
  \/ \E c \in DOMAIN tree : CompleteStat(c)
  \/ \E d \in DOMAIN tree : CompleteList(d)
  \/ \E d \in DOMAIN tree : PoolStep(d)

\* the operations complete in the order they were issued
InOrderNext ==
  \/ CallGetDirectorySize
  \/ \E c \in DOMAIN tree : sz.issued # <<>> /\ c = Head(sz.issued) /\ CompleteStat(c)
  \/ \E d \in DOMAIN tree : sz.issued # <<>> /\ d = Head(sz.issued) /\ CompleteList(d)
  \/ \E d \in DOMAIN tree : PoolStep(d)

\* no size call: the variables of the size machine at rest
SzIdle ==
  /\ tree = <<[kind |-> "dir", ok |-> TRUE, parent |-> 0]>>
  /\ concurrency = MAX_CONCURRENT_IO
  /\ sz = sz0(tree)

\* no clean call: the variables of the removal executor at rest
RmIdle ==
  /\ fs = [p \in ItemPaths |-> NoNode]
  /\ fs0 = fs
  /\ op = "none"
  /\ pc = "idle"
  /\ items = <<>>
  /\ dryRun = FALSE
  /\ idx = 1
  /\ status = <<>>
  /\ rmCalls = <<>>
  /\ pruneCalls = 0
  /\ ret = ret0

(***************************************************************************)
(* getSize, getItems, getDirectoryItems (utils/fs.ts).                     *)
(*                                                                         *)
(* The functions await one operation at a time, so a call on a tree that   *)
(* does not change is one step.  An entry of an enumerated tree also has   *)
(* stat (stat succeeds on it; for a file that is its ok) and age, the days *)
(* since its mtime, negative for an mtime in the future.  An optional      *)
(* number is a sequence: <<>> when undefined, <<v>> otherwise.             *)
(***************************************************************************)
Ages == {-1, 1, 2}

EnumEntryOptions ==
  {[kind |-> "file", ok |-> FALSE, stat |-> FALSE, age |-> 1],
   [kind |-> "dir", ok |-> FALSE, stat |-> FALSE, age |-> 1]}
  \cup {[kind |-> "file", ok |-> TRUE, stat |-> TRUE, age |-> a] : a \in Ages}
  \cup {[kind |-> "dir", ok |-> o, stat |-> TRUE, age |-> a] :
          o \in BOOLEAN, a \in Ages}

RECURSIVE EnumTreesOf(_)
\* the enumerated trees of k entries
EnumTreesOf(k) ==
  IF k = 1
  THEN {<<[kind |-> "dir", ok |-> o, stat |-> TRUE, age |-> 1, parent |-> 0]>> :
          o \in BOOLEAN}
  ELSE UNION {{Append(t, [kind |-> e.kind, ok |-> e.ok, stat |-> e.stat,
                          age |-> e.age, parent |-> q]) :
                 e \in EnumEntryOptions,
                 q \in {m \in 1..(k - 1) : t[m].kind = "dir"}} :
              t \in EnumTreesOf(k - 1)}

EnumTrees == UNION {EnumTreesOf(k) : k \in 1..MaxEntries}

\* the options getItems is called with
GetItemsOptions ==
  [recursive : BOOLEAN,
   minAge    : {<<>>, <<0>>, <<2>>},
   minSize   : {<<>>, <<4>>},
   maxDepth  : {<<>>, <<0>>, <<1>>}]

\* if (x): an optional number is truthy when it is defined and not 0
truthy(x) == x # <<>> /\ x[1] # 0

\* const { maxDepth = 10 } = options
DefaultMaxDepth == 10

maxDepthOf(o) == IF o.maxDepth = <<>> THEN DefaultMaxDepth ELSE o.maxDepth[1]

RECURSIVE entriesFrom(_, _, _)
\* readdir(d): the entries of directory d in listing order
entriesFrom(t, d, n) ==
  IF n > Len(t) THEN <<>>
  ELSE (IF t[n].parent = d THEN <<n>> ELSE <<>>) \o entriesFrom(t, d, n + 1)

entriesOf(t, d) == entriesFrom(t, d, d + 1)

RECURSIVE getDirectorySize(_, _)
\* what getDirectorySize returns on directory d: 0 when opendir throws,
\* else the sum of what its tasks return
getDirectorySize(t, d) ==
  IF ~t[d].ok THEN 0
  ELSE LET ts == tasksOf(t, d)
       IN SumSeq([k \in 1..Len(ts) |->
                    IF t[ts[k]].kind = "file"
                    THEN (IF t[ts[k]].ok THEN fileSize(ts[k]) ELSE 0)
                    ELSE getDirectorySize(t, ts[k])])

\* getSize(path) on entry n: 0 when stat throws
getSizeAt(t, n) ==
  IF ~t[n].stat THEN 0
  ELSE IF t[n].kind = "file" THEN fileSize(n)
  ELSE IF t[n].kind = "dir" THEN getDirectorySize(t, n)
  ELSE 0

\* the state of a walk: the items pushed, the directories readdir has
\* listed with their depth, and whether an exception is propagating
acc0 == [items |-> <<>>, listed |-> {}, threw |-> FALSE]

\* the item pushed for entry n
itemOf(t, n, size) ==
  [path |-> n, size |-> size, isDirectory |-> t[n].kind = "dir", age |-> t[n].age]

RECURSIVE processDirNoCatch(_, _, _, _, _)
RECURSIVE processFromNoCatch(_, _, _, _, _)
\* processDir without its outer try/catch
processDirNoCatch(t, o, d, depth, acc) ==
  IF depth > maxDepthOf(o) THEN acc
  ELSE IF ~t[d].ok THEN [acc EXCEPT !.threw = TRUE]
       ELSE processFromNoCatch(t, o, entriesOf(t, d), depth,
              [acc EXCEPT !.listed = @ \cup {[dir |-> d, depth |-> depth]}])

processFromNoCatch(t, o, es, depth, acc) ==
  IF es = <<>> \/ acc.threw THEN acc
  ELSE LET n    == Head(es)
           size == IF t[n].kind = "dir" THEN getDirectorySize(t, n) ELSE fileSize(n)
           body == IF ~t[n].stat THEN [acc EXCEPT !.threw = TRUE]
                   ELSE IF truthy(o.minAge) /\ t[n].age < o.minAge[1] THEN acc
                   ELSE IF truthy(o.minSize) /\ size < o.minSize[1] THEN acc
                   ELSE LET pushed == [acc EXCEPT !.items = Append(@, itemOf(t, n, size))]
                        IN IF o.recursive /\ t[n].kind = "dir"
                           THEN processDirNoCatch(t, o, n, depth + 1, pushed)
                           ELSE pushed
       IN processFromNoCatch(t, o, Tail(es), depth, [body EXCEPT !.threw = FALSE])

RECURSIVE processDir(_, _, _, _, _)
RECURSIVE processFrom(_, _, _, _, _)
\* processDir that stops one level later
processDirDeeper(t, o, d, depth, acc) ==
  IF depth > maxDepthOf(o) + 1 THEN acc
  ELSE LET tried ==
             IF ~t[d].ok THEN [acc EXCEPT !.threw = TRUE]
             ELSE processFrom(t, o, entriesOf(t, d), depth,
                    [acc EXCEPT !.listed = @ \cup {[dir |-> d, depth |-> depth]}])
       IN [tried EXCEPT !.threw = FALSE]

\* getItems.processDir(currentPath, depth): nothing past maxDepth; readdir,
\* then the loop over the entries; what is thrown is caught and the
\* function returns
processDir(t, o, d, depth, acc) ==
  IF depth > maxDepthOf(o) THEN acc
  ELSE LET tried ==
             IF ~t[d].ok THEN [acc EXCEPT !.threw = TRUE]
             ELSE processFrom(t, o, entriesOf(t, d), depth,
                    [acc EXCEPT !.listed = @ \cup {[dir |-> d, depth |-> depth]}])
       IN [tried EXCEPT !.threw = FALSE]

\* the loop of processDir over the entries es, one iteration: stat, the
\* minAge test, the size, the minSize test, the push, the descent; what the
\* body throws is caught and the loop continues
processFrom(t, o, es, depth, acc) ==
  IF es = <<>> \/ acc.threw THEN acc
  ELSE LET n    == Head(es)
           size == IF t[n].kind = "dir" THEN getDirectorySize(t, n) ELSE fileSize(n)
           body == IF ~t[n].stat THEN [acc EXCEPT !.threw = TRUE]
                   ELSE IF truthy(o.minAge) /\ t[n].age < o.minAge[1] THEN acc
                   ELSE IF truthy(o.minSize) /\ size < o.minSize[1] THEN acc
                   ELSE LET pushed == [acc EXCEPT !.items = Append(@, itemOf(t, n, size))]
                        IN IF o.recursive /\ t[n].kind = "dir"
                           THEN processDir(t, o, n, depth + 1, pushed)
                           ELSE pushed
       IN processFrom(t, o, Tail(es), depth, [body EXCEPT !.threw = FALSE])

\* getItems(dirPath, options) on the root: the items, the directories
\* listed, and whether the promise rejects
getItems(t, o) ==
  LET r == processDir(t, o, 1, 0, acc0)
  IN [items |-> r.items, listed |-> r.listed, rejected |-> r.threw]

RECURSIVE directoryItemsFrom(_, _, _)
\* the loop of getDirectoryItems over the entries es
directoryItemsFrom(t, es, acc) ==
  IF es = <<>> THEN acc
  ELSE LET n    == Head(es)
           size == IF t[n].kind = "dir" THEN getDirectorySize(t, n) ELSE fileSize(n)
       IN directoryItemsFrom(t, Tail(es),
            IF ~t[n].stat THEN acc
            ELSE [acc EXCEPT !.items = Append(@, itemOf(t, n, size))])

\* getDirectoryItems(dirPath) on the root: [] when readdir throws
getDirectoryItems(t) ==
  LET r == IF ~t[1].ok THEN acc0
           ELSE directoryItemsFrom(t, entriesOf(t, 1),
                  [acc0 EXCEPT !.listed = {[dir |-> 1, depth |-> 0]}])
  IN [items |-> r.items, listed |-> r.listed, rejected |-> r.threw]

NoCall == [fn |-> "none"]
NoOut == [fn |-> "none"]

FnIdle == inp = NoCall /\ answer = NoOut

GetItems(o) ==
  /\ inp = NoCall
  /\ inp' = [fn |-> "getItems", options |-> o]
  /\ answer' = getItems(tree, o)
  /\ UNCHANGED otherThanFn

GetDirectoryItems ==
  /\ inp = NoCall
  /\ inp' = [fn |-> "getDirectoryItems"]
  /\ answer' = getDirectoryItems(tree)
  /\ UNCHANGED otherThanFn

\* getSize(path) on the path of entry n
GetSize(n) ==
  /\ inp = NoCall
  /\ inp' = [fn |-> "getSize", path |-> n]
  /\ answer' = [value |-> getSizeAt(tree, n), rejected |-> FALSE]
  /\ UNCHANGED otherThanFn

\* getDirectorySize(path) on the directory that is entry n
GetDirectorySize(n) ==
  /\ inp = NoCall
  /\ tree[n].kind = "dir"
  /\ inp' = [fn |-> "getDirectorySize", path |-> n]
  /\ answer' = [value |-> getDirectorySize(tree, n), rejected |-> FALSE]
  /\ UNCHANGED otherThanFn

\* a call of the enumerator or of the aggregator on any tree of the bounds
EnumInit ==
  /\ tree \in EnumTrees
  /\ concurrency = MAX_CONCURRENT_IO
  /\ sz = sz0(tree)
  /\ FnIdle

EnumNext ==
  \/ \E o \in GetItemsOptions : GetItems(o)
  \/ GetDirectoryItems
  \/ \E n \in DOMAIN tree : GetSize(n)
  \/ \E n \in DOMAIN tree : GetDirectorySize(n)

(***************************************************************************)
(* The scanners' scan and the scan harness (runScans).                     *)
(***************************************************************************)
\* the longest list of categories a call of runScans requests
MaxScans == 3

\* the concurrency the commands pass when the configuration has none
DefaultScanConcurrency == 4

\* the categories of the scanners whose scan is modelled
Categories == {"temp-files", "windows-update", "docker"}

\* the lists of distinct categories of length at most MaxScans
CategoryLists ==
  {q \in SeqsUpTo(Categories, MaxScans) :
     \A i, j \in DOMAIN q : i # j => q[i] # q[j]}

\* what a scan finds at one of its paths: whether exists() is true, what
\* getSize returns, and whether the stat after it succeeds
Probes ==
  {[exists |-> FALSE, size |-> 0, statOk |-> FALSE]}
    \cup [exists : {TRUE}, size : 0..MaxSize, statOk : BOOLEAN]

\* the block a scan runs for one path: an item is pushed when the path
\* exists, its size is positive and stat does not throw
probeItems(path, p) ==
  IF p.exists /\ p.size > 0 /\ p.statOk
  THEN <<[path |-> path, size |-> p.size]>>
  ELSE <<>>

\* the output of docker system df: the command fails, or each line has a
\* type and the bytes parseDockerSize reads from its Reclaimable column
DockerLine == [type : {"Images"}, reclaimableBytes : 0..MaxSize]
DockerOutputs ==
  {[ok |-> FALSE, lines |-> <<>>]}
    \cup {[ok |-> TRUE, lines |-> l] : l \in SeqsUpTo(DockerLine, MaxItems)}

RECURSIVE dockerItemsFrom(_, _)
\* the loop of DockerScanner.scan from line k on
dockerItemsFrom(lines, k) ==
  IF k > Len(lines) THEN <<>>
  ELSE (IF lines[k].reclaimableBytes > 0
        THEN <<[path |-> "Docker", size |-> lines[k].reclaimableBytes]>>
        ELSE <<>>) \o dockerItemsFrom(lines, k + 1)

RECURSIVE SumItemSizes(_)
\* the sum of the sizes of a list of items
SumItemSizes(its) ==
  IF its = <<>> THEN 0 ELSE Head(its).size + SumItemSizes(Tail(its))

\* BaseScanner.createResult with a totalSize that is not the sum
createResultFirstOnly(category, its) ==
  [category |-> category, items |-> its,
   totalSize |-> IF its = <<>> THEN 0 ELSE Head(its).size]

\* BaseScanner.createResult: the ScanResult of a list of items
createResult(category, its) ==
  [category |-> category, items |-> its, totalSize |-> SumItemSizes(its)]

\* what each scanner's scan reads
scanInputs(category) ==
  CASE category = "temp-files"     -> [userTemp : Probes, systemTemp : Probes]
    [] category = "windows-update" -> [windowsUpdate : Probes]
    [] OTHER                       -> [docker : DockerOutputs]

\* TempFilesScanner.scan
tempFilesScan(e) ==
  createResult("temp-files",
               probeItems("UserDir", e.userTemp)
                 \o probeItems("SysTemp", e.systemTemp))

\* WindowsUpdateScanner.scan
windowsUpdateScan(e) ==
  createResult("windows-update", probeItems("WindowsUpdate", e.windowsUpdate))

\* DockerScanner.scan
dockerScan(e) ==
  createResult("docker",
               IF e.docker.ok THEN dockerItemsFrom(e.docker.lines, 1)
               ELSE <<>>)

\* scan of the scanner registered for a category
scan(category, e) ==
  CASE category = "temp-files"     -> tempFilesScan(e)
    [] category = "windows-update" -> windowsUpdateScan(e)
    [] OTHER                       -> dockerScan(e)

\* the ways a scan's promise settles: it rejects, or it resolves with the
\* scanner's result
ScanOutcomes(category) ==
  {[threw |-> TRUE, result |-> createResult(category, <<>>)]}
    \cup {[threw |-> FALSE, result |-> scan(category, e)] :
            e \in scanInputs(category)}

\* the result of a failed scan, built without its error
failedResultNoError(category) == createResult(category, <<>>)

\* the result the harness builds for a failed scan: empty, with an error
failedResult(category) ==
  [category |-> category, items |-> <<>>, totalSize |-> 0,
   error |-> "scan failed"]

NoResult == [category |-> "none", items |-> <<>>, totalSize |-> 0]
NoSummary == [results |-> <<>>, totalSize |-> 0, totalItems |-> 0]

RECURSIVE SumTotals(_)
SumTotals(rs) ==
  IF rs = <<>> THEN 0 ELSE Head(rs).totalSize + SumTotals(Tail(rs))

RECURSIVE CountItems(_)
CountItems(rs) ==
  IF rs = <<>> THEN 0 ELSE Len(Head(rs).items) + CountItems(Tail(rs))

\* the summary of a list of results
summaryOf(rs) ==
  [results |-> rs, totalSize |-> SumTotals(rs), totalItems |-> CountItems(rs)]

\* the index of a category in the requested list
indexOf(ids, category) == CHOOSE i \in DOMAIN ids : ids[i] = category

\* the results in the order the scans completed
assembleInCompletionOrder(s) ==
  [k \in 1..Len(s.progress) |-> s.results[indexOf(s.ids, s.progress[k].category)]]

\* the results in the order the categories were requested
assemble(s) == [i \in 1..Len(s.ids) |-> s.results[i]]

\* no runScans call: the variable of the harness at rest
HIdle == h = [pc |-> "idle"]

\* runScans(ids, {concurrency}): every scan is queued
RunScans(ids, conc) ==
  /\ h.pc = "idle"
  /\ h' = [pc          |-> "running",
           ids         |-> ids,
           concurrency |-> conc,
           state       |-> [i \in 1..Len(ids) |-> "queued"],
           threw       |-> [i \in 1..Len(ids) |-> FALSE],
           returned    |-> [i \in 1..Len(ids) |-> NoResult],
           results     |-> [i \in 1..Len(ids) |-> NoResult],
           completed   |-> 0,
           progress    |-> <<>>,
           summary     |-> NoSummary]
  /\ UNCHANGED otherThanH

\* the scans in flight
ScansRunning(s) == {i \in DOMAIN s.state : s.state[i] = "running"}
ScansQueued(s) == {i \in DOMAIN s.state : s.state[i] = "queued"}

\* the pool admits the first queued scan when fewer than concurrency run
AdmitScan ==
  /\ h.pc = "running"
  /\ ScansQueued(h) # {}
  /\ Cardinality(ScansRunning(h)) < h.concurrency
  /\ LET i == CHOOSE x \in ScansQueued(h) : \A y \in ScansQueued(h) : x <= y
     IN h' = [h EXCEPT !.state[i] = "running"]
  /\ UNCHANGED otherThanH

\* a scan settles and the harness reports progress only when it succeeded
ScanCompletesQuietOnFailure(i, o) ==
  /\ h.pc = "running"
  /\ h.state[i] = "running"
  /\ h' = [h EXCEPT
             !.state[i]    = "done",
             !.threw[i]    = o.threw,
             !.returned[i] = o.result,
             !.results[i]  = IF o.threw THEN failedResult(h.ids[i])
                             ELSE o.result,
             !.completed   = @ + 1,
             !.progress    = IF o.threw THEN @
                             ELSE Append(@, [completed |-> h.completed + 1,
                                             total     |-> Len(h.ids),
                                             category  |-> h.ids[i]])]
  /\ UNCHANGED otherThanH

\* a scan settles: the harness keeps its result, or an empty result with an
\* error when it threw, counts the completion and calls onProgress
ScanCompletes(i, o) ==
  /\ h.pc = "running"
  /\ h.state[i] = "running"
  /\ h' = [h EXCEPT
             !.state[i]    = "done",
             !.threw[i]    = o.threw,
             !.returned[i] = o.result,
             !.results[i]  = IF o.threw THEN failedResult(h.ids[i])
                             ELSE o.result,
             !.completed   = @ + 1,
             !.progress    = Append(@, [completed |-> h.completed + 1,
                                        total     |-> Len(h.ids),
                                        category  |-> h.ids[i]])]
  /\ UNCHANGED otherThanH

\* every scan has settled: runScans resolves with the summary
ReturnSummary ==
  /\ h.pc = "running"
  /\ \A i \in DOMAIN h.state : h.state[i] = "done"
  /\ h' = [h EXCEPT !.pc = "done", !.summary = summaryOf(assemble(h))]
  /\ UNCHANGED otherThanH

HarnessNext ==
  \/ \E ids \in CategoryLists :
       \E conc \in (1..MaxConcurrency) \cup {DefaultScanConcurrency} :
         RunScans(ids, conc)
  \/ AdmitScan
  \/ \E i \in 1..MaxScans :
       /\ h.pc = "running"
       /\ i \in DOMAIN h.ids
       /\ \E o \in ScanOutcomes(h.ids[i]) : ScanCompletes(i, o)
  \/ ReturnSummary

(***************************************************************************)
(* The duplicate detector (findDuplicates).                                *)
(***************************************************************************)
\* the most files under the search paths, and the latest modification time
MaxFiles == 3
MaxTime == 3

\* the paths of the files, as characters, and the order of the characters
DupPaths == {<<"a">>, <<"a", "b">>, <<"b">>}
charCode == [a |-> 97, b |-> 98]

RECURSIVE lexLess(_, _)
\* p is before q in lexicographic order
lexLess(p, q) ==
  IF q = <<>> THEN FALSE
  ELSE IF p = <<>> THEN TRUE
  ELSE IF Head(p) = Head(q) THEN lexLess(Tail(p), Tail(q))
  ELSE charCode[Head(p)] < charCode[Head(q)]

\* the contents of the files, as bytes: two of one size that differ, and
\* one of another size
Contents == {<<1>>, <<0, 1>>, <<0, 0>>}

RECURSIVE hashContent(_)
\* the streaming hash of a content: every byte read updates a digest of
\* fixed size
hashContent(c) ==
  IF c = <<>> THEN 0
  ELSE (2 * hashContent(SubSeq(c, 1, Len(c) - 1)) + c[Len(c)]) % 4

\* what the enumeration and the hashing find of a file: hashable is false
\* when the file has disappeared or cannot be read when the second phase
\* hashes it
FileFacts(maxTime) ==
  [content : Contents, modifiedAt : 1..maxTime, hashable : BOOLEAN]

\* the lists of n distinct paths
PathLists(n) ==
  {q \in [1..n -> DupPaths] : \A i, j \in 1..n : i # j => q[i] # q[j]}

\* the files of the paths ps with the facts a, in the order the enumeration
\* finds them
fileList(ps, a) ==
  [k \in DOMAIN ps |->
     [path       |-> ps[k],
      content    |-> a[k].content,
      modifiedAt |-> a[k].modifiedAt,
      hashable   |-> a[k].hashable]]

FindDuplicatesOptions == [minSizeBytes : 1..2, maxFiles : 2..MaxFiles]

\* the enumeration without the cap
enumeratedAll(files, o) == files

\* the files the enumeration keeps: it stops at maxFiles
enumerated(files, o) ==
  SubSeq(files, 1, IF Len(files) > o.maxFiles THEN o.maxFiles ELSE Len(files))

\* phase 1: the enumerated files of at least minSizeBytes
candidates(files, o) ==
  SelectSeq(files, LAMBDA f : Len(f.content) >= o.minSizeBytes)

\* the candidates of one size
sizeBucket(cands, s) == SelectSeq(cands, LAMBDA f : Len(f.content) = s)

\* phase 2 on a bucket: the items of the files that could be hashed, with
\* their hash
hashedOf(bucket) ==
  LET readable == SelectSeq(bucket, LAMBDA f : f.hashable)
  IN [k \in 1..Len(readable) |->
        [path        |-> readable[k].path,
         size        |-> Len(readable[k].content),
         modifiedAt  |-> readable[k].modifiedAt,
         contentHash |-> hashContent(readable[k].content)]]

\* x is kept rather than y: it is more recent, or as recent and first in
\* path order
keptBefore(x, y) ==
  \/ x.modifiedAt > y.modifiedAt
  \/ x.modifiedAt = y.modifiedAt /\ lexLess(x.path, y.path)

\* the first enumerated of the most recent items
keptItemFirstFound(its) ==
  its[CHOOSE k \in DOMAIN its :
        /\ \A j \in DOMAIN its : its[j].modifiedAt <= its[k].modifiedAt
        /\ \A j \in 1..(k - 1) : its[j].modifiedAt < its[k].modifiedAt]

\* the retention policy: the item kept in a group
keptItemOf(its) ==
  its[CHOOSE k \in DOMAIN its :
        \A j \in DOMAIN its : j # k => keptBefore(its[k], its[j])]

\* the group of a list of items
groupOf(its) ==
  LET kept == keptItemOf(its)
  IN [items       |-> its,
      keptItem    |-> kept,
      reclaimable |-> SelectSeq(its, LAMBDA x : x # kept)]

\* the candidates bucketed together when sizes are not compared
bucketsIgnoringSize(cands) == IF Len(cands) >= 2 THEN {cands} ELSE {}

\* the buckets of phase 1: the candidates of each size that at least two
\* candidates have
bucketsOf(cands) ==
  {b \in {sizeBucket(cands, s) : s \in {Len(cands[k].content) : k \in DOMAIN cands}} :
     Len(b) >= 2}

\* the groups of a bucket: its hashed items of each hash that at least two
\* of them have
groupsOfBucket(bucket) ==
  LET hashed == hashedOf(bucket)
      subs   == {SelectSeq(hashed, LAMBDA x : x.contentHash = v) :
                   v \in {hashed[k].contentHash : k \in DOMAIN hashed}}
  IN {groupOf(sub) : sub \in {s \in subs : Len(s) >= 2}}

\* findDuplicates on the enumerated files
findDuplicates(files, o) ==
  LET seen == enumerated(files, o)
  IN [groups     |-> UNION {groupsOfBucket(b) :
                              b \in bucketsOf(candidates(seen, o))},
      considered |-> seen,
      partial    |-> Len(files) > o.maxFiles]

\* a call of findDuplicates on the files the enumeration found
FindDuplicates(o) ==
  /\ inp.fn = "files"
  /\ inp' = [fn |-> "findDuplicates", files |-> inp.files, options |-> o]
  /\ answer' = findDuplicates(inp.files, o)
  /\ UNCHANGED otherThanFn

DupInit ==
  /\ \E n \in 0..MaxFiles :
       \E ps \in PathLists(n) :
         \E a \in [1..n -> FileFacts(MaxTime)] :
           inp = [fn |-> "files", files |-> fileList(ps, a)]
  /\ answer = NoOut

DupNext == \E o \in FindDuplicatesOptions : FindDuplicates(o)

(***************************************************************************)
(* The error classification (classifyError, isRecoverableError).           *)
(***************************************************************************)
\* the values a catch block may hand to classifyError: an Error or another
\* value, with the code property it has ("" when it has none) and its text
ErrorValues ==
  [isError : BOOLEAN,
   code    : {"EACCES", "EPERM", "ENOENT", "EBUSY", "ENOTEMPTY",
              "ENAMETOOLONG", "ENOSPC", "ETIMEDOUT", "EEXIST", ""},
   message : {"m1", "m2"}]

\* the optional path argument
ErrorPaths == {<<>>, <<"UserDir">>, <<"SysTemp">>}

\* the code and the message classifyError gives an Error
classOf(error) ==
  CASE error.code \in {"EACCES", "EPERM"} ->
         [code |-> "PERMISSION_DENIED", message |-> "Access denied"]
    [] error.code = "ENOENT" ->
         [code |-> "FILE_NOT_FOUND", message |-> "File or directory not found"]
    [] error.code \in {"EBUSY", "ENOTEMPTY"} ->
         [code |-> "FILE_LOCKED", message |-> "File or directory is in use"]
    [] error.code = "ENAMETOOLONG" ->
         [code |-> "PATH_TOO_LONG", message |-> "Path exceeds maximum length"]
    [] error.code = "ENOSPC" ->
         [code |-> "DISK_FULL", message |-> "No space left on device"]
    [] error.code = "ETIMEDOUT" ->
         [code |-> "TIMEOUT", message |-> "Operation timed out"]
    [] OTHER ->
         [code |-> "UNKNOWN", message |-> error.message]

\* classifyError without the instanceof test
classifyErrorAnyValue(error, path) ==
  [code |-> classOf(error).code, message |-> classOf(error).message,
   path |-> path, originalError |-> <<error>>]

\* classifyError(error, path)
classifyError(error, path) ==
  IF error.isError
  THEN [code |-> classOf(error).code, message |-> classOf(error).message,
        path |-> path, originalError |-> <<error>>]
  ELSE [code |-> "UNKNOWN", message |-> error.message,
        path |-> path, originalError |-> <<>>]

\* isRecoverableError(error)
isRecoverableError(error) ==
  error.code = "FILE_LOCKED" \/ error.code = "TIMEOUT"

\* a call of classifyError, and of isRecoverableError on what it returns
ClassifyError(error, path) ==
  /\ inp = NoCall
  /\ inp' = [fn |-> "classifyError", error |-> error, path |-> path]
  /\ answer' = [error       |-> classifyError(error, path),
                recoverable |-> isRecoverableError(classifyError(error, path))]
  /\ UNCHANGED otherThanFn

(***************************************************************************)
(* The path guards (utils/paths.ts: expandPath, isSystemPath).             *)
(***************************************************************************)
\* os.homedir() and process.cwd()
HOME == <<"C",":",Sep,"U","s","e","r","s",Sep,"m","e">>
Cwd == <<"D",":",Sep,"w","o","r","k">>

\* the paths the guards are called with: deny-listed directories and paths
\* inside them in several spellings, paths outside, paths that only share
\* the first characters of a deny-listed directory, paths with "..", paths
\* with a tilde and relative paths
GuardPaths ==
  {
    <<"C",":",Sep,"W","i","n","d","o","w","s">>,
    <<"c",":",Sep,"w","i","n","d","o","w","s",Sep,"t","e","m","p">>,
    <<"C",":","/","W","i","n","d","o","w","s","/","S","y","s","t","e","m","3","2">>,
    <<"C",":",Sep,"W","I","N","D","O","W","S",Sep,"S","Y","S","T","E","M","3","2",Sep,"T","E","S","T">>,
    <<"C",":",Sep,"P","r","o","g","r","a","m"," ","F","i","l","e","s">>,
    <<"C",":",Sep,"U","s","e","r","s",Sep,"t","e","s","t">>,
    <<"C",":",Sep,"U","s","e","r","s",Sep,"t","e","s","t",Sep>>,
    <<"D",":",Sep,"P","r","o","j","e","c","t","s",Sep,"t","e","s","t">>,
    <<"C",":",Sep,"U","s","e","r","s",Sep,".",".",Sep,"W","i","n","d","o","w","s">>,
    <<"C",":",Sep,"W","i","n","d","o","w","s",Sep,".",".",Sep,"U","s","e","r","s">>,
    <<"C",":",Sep,"W","i","n","d","o","w","s","O","l","d">>,
    <<"C",":",Sep,"B","o","o","t","c","a","m","p">>,
    <<"D",":",Sep,"W","i","n","d","o","w","s">>,
    <<"~",Sep,"t","e","s","t">>,
    <<"~">>,
    <<"t","e","s","t">>,
    <<".",".",Sep,"W","i","n","d","o","w","s">>,
    <<"~",Sep,".",".",Sep,".",".",Sep,"W","i","n","d","o","w","s">>
  }

\* path.isAbsolute of a drive-letter path
isAbsolute(p) == Len(p) >= 3 /\ p[2] = ":" /\ (p[3] = Sep \/ p[3] = "/")

\* path.resolve(p) of a drive-letter or relative path: relative to the
\* working directory, normalized, without a trailing separator except at
\* the root
resolve(p) ==
  LET n == normalize(IF isAbsolute(p) THEN p ELSE Cwd \o <<Sep>> \o p)
  IN IF Len(n) > 3 /\ n[Len(n)] = Sep THEN SubSeq(n, 1, Len(n) - 1) ELSE n

\* inputPath.startsWith('~') ? inputPath.replace('~', HOME) : inputPath
expanded(inputPath) ==
  IF startsWith(inputPath, <<"~">>) THEN HOME \o Tail(inputPath) ELSE inputPath

\* expandPath without the isSystemPath check
expandPathUnchecked(inputPath) ==
  [threw |-> FALSE, value |-> normalize(resolve(expanded(inputPath)))]

\* expandPath(inputPath): throws 'Unsafe path detected', or returns
\* normalized
expandPath(inputPath) ==
  LET normalized == normalize(resolve(expanded(inputPath)))
  IN IF isSystemPath(normalized)
     THEN [threw |-> TRUE, value |-> <<>>]
     ELSE [threw |-> FALSE, value |-> normalized]

\* a call of isSystemPath
IsSystemPath(targetPath) ==
  /\ inp = NoCall
  /\ inp' = [fn |-> "isSystemPath", path |-> targetPath]
  /\ answer' = [fn |-> "isSystemPath", value |-> isSystemPath(targetPath)]
  /\ UNCHANGED otherThanFn

\* a call of expandPath
ExpandPath(inputPath) ==
  /\ inp = NoCall
  /\ inp' = [fn |-> "expandPath", path |-> inputPath]
  /\ answer' = [fn |-> "expandPath"] @@ expandPath(inputPath)
  /\ UNCHANGED otherThanFn

UtilNext ==
  \/ \E error \in ErrorValues : \E path \in ErrorPaths :
       ClassifyError(error, path)
  \/ \E targetPath \in GuardPaths : IsSystemPath(targetPath)
  \/ \E inputPath \in GuardPaths : ExpandPath(inputPath)

(***************************************************************************)
(* The commands (cleanCommand, interactiveCommand).                        *)
(***************************************************************************)
\* the registered scanners, in registry order, and their safety levels
CmdCategories == <<"temp-files", "docker", "downloads">>
safetyLevel ==
  [c \in {"temp-files", "docker", "downloads"} |->
     CASE c = "temp-files" -> "safe"
       [] c = "docker"     -> "moderate"
       [] OTHER            -> "risky"]

\* the items a scan of each category finds when it finds any
scanItemsOf ==
  [c \in {"temp-files", "docker", "downloads"} |->
     CASE c = "temp-files" -> <<[path |-> "UserDir", size |-> 1]>>
       [] c = "docker"     -> <<[path |-> "Docker", size |-> 2]>>
       [] OTHER            -> <<[path |-> "d1", size |-> 4],
                                [path |-> "d2", size |-> 8]>>]

\* the profiles getProfile knows: a built-in one and a custom one whose
\* options set includeRisky
CmdProfiles ==
  [quick |-> [categories |-> <<"temp-files">>, includeRisky |-> FALSE],
   mine  |-> [categories |-> <<"temp-files", "downloads">>,
              includeRisky |-> TRUE]]

\* the options of cleanCommand; category and profile are optional
CleanCommandOptions ==
  [all : BOOLEAN, yes : BOOLEAN, json : BOOLEAN, dryRun : BOOLEAN,
   includeRisky : BOOLEAN,
   category : {<<>>, <<"temp-files">>, <<"downloads">>},
   profile : {<<>>, <<"quick">>, <<"mine">>, <<"nope">>}]

\* config.excludeCategories
CmdConfigs == [excludeCategories : {{}, {"docker"}}]

\* summary.results of a scan of the categories ids in which the
\* categories of found have items
scanResultsOf(ids, found) ==
  [k \in 1..Len(ids) |->
     [category |-> ids[k],
      items    |-> IF ids[k] \in found THEN scanItemsOf[ids[k]] ELSE <<>>]]

\* the results the command shows when risky categories are not hidden
visibleResultsWithRisky(results, config, includeRisky) ==
  SelectSeq(results,
            LAMBDA r : r.items # <<>> /\ r.category \notin config.excludeCategories)

\* resultsWithItems: the results with items, not excluded, and not risky
\* unless includeRisky is set
visibleResults(results, config, includeRisky) ==
  LET withItems ==
        SelectSeq(results,
                  LAMBDA r : r.items # <<>>
                             /\ r.category \notin config.excludeCategories)
      risky == SelectSeq(withItems, LAMBDA r : safetyLevel[r.category] = "risky")
      safe  == SelectSeq(withItems, LAMBDA r : safetyLevel[r.category] # "risky")
  IN IF ~includeRisky /\ risky # <<>> THEN safe ELSE withItems

RECURSIVE selectFrom(_, _)
\* the loop of selectItemsInteractively and selectItemsFromProfile: a risky
\* category gives the items whose paths were ticked, if any; another
\* category gives all its items
selectFrom(results, paths) ==
  IF results = <<>> THEN <<>>
  ELSE LET r      == Head(results)
           ticked == SelectSeq(r.items, LAMBDA i : i.path \in paths)
       IN (IF safetyLevel[r.category] = "risky"
           THEN IF ticked # <<>>
                THEN <<[categoryId |-> r.category, items |-> ticked]>>
                ELSE <<>>
           ELSE <<[categoryId |-> r.category, items |-> r.items]>>)
          \o selectFrom(Tail(results), paths)

\* selectItemsInteractively: the categories ticked, then the loop
selectItemsInteractively(results, cats, paths) ==
  selectFrom(SelectSeq(results, LAMBDA r : r.category \in cats), paths)

RECURSIVE SumSelected(_)
\* the number and the total size of the selected items
SumSelected(sel) ==
  IF sel = <<>> THEN [items |-> 0, size |-> 0]
  ELSE LET rest == SumSelected(Tail(sel))
       IN [items |-> Len(Head(sel).items) + rest.items,
           size  |-> SumItemSizes(Head(sel).items) + rest.size]

\* the command never asks for confirmation
needsConfirmNever(c) == FALSE

\* whether the command asks for confirmation before cleaning
needsConfirm(c) ==
  IF c.which = "interactive" THEN TRUE
  ELSE ~c.options.yes /\ ~c.options.json /\ ~c.options.dryRun

\* the step after the confirmation when the dry-run branch is missing
pcAfterConfirmNoDryRun(c) == "cleaning"

\* the step after the confirmation: the dry-run branch of cleanCommand, or
\* the clean loop
pcAfterConfirm(c) ==
  IF c.which = "clean" /\ c.options.dryRun THEN "dryRun" ELSE "cleaning"

\* the command returns null
returnNull(c) == [c EXCEPT !.pc = "returned", !.returned = <<>>]

\* the command has its selected items: it returns null when there are
\* none, else asks for confirmation or goes on
withSelection(c, sel) ==
  IF sel = <<>> THEN returnNull(c)
  ELSE LET d == [c EXCEPT !.selectedItems = sel]
       IN [d EXCEPT !.pc = IF needsConfirm(d) THEN "confirming"
                           ELSE pcAfterConfirm(d)]

cmd0 ==
  [pc |-> "scanning", which |-> "clean", options |-> <<>>,
   config |-> <<>>, includeRisky |-> FALSE, byProfile |-> FALSE,
   scanners |-> <<>>, scanResults |-> <<>>, offered |-> <<>>,
   selectedItems |-> <<>>,
   confirmed |-> "unasked", cleanCalls |-> <<>>, idx |-> 1,
   cleanResults |-> [results |-> <<>>, totalFreedSpace |-> 0,
                     totalCleanedItems |-> 0, totalErrors |-> 0],
   returned |-> <<>>]

\* cleanCommand(options) up to the scan: the profile, the scanners
CleanCommand(options, config) ==
  /\ cmd.pc = "idle"
  /\ LET known    == options.profile # <<>>
                     /\ options.profile[1] \in DOMAIN CmdProfiles
         profile  == CmdProfiles[options.profile[1]]
         c        == [cmd0 EXCEPT
                        !.options = options,
                        !.config = config,
                        !.byProfile = known,
                        !.includeRisky =
                           options.includeRisky \/ (known /\ profile.includeRisky),
                        !.scanners =
                           IF options.category # <<>> THEN options.category
                           ELSE IF known THEN profile.categories
                           ELSE CmdCategories]
     IN cmd' = IF options.profile # <<>> /\ ~known THEN returnNull(c) ELSE c
  /\ UNCHANGED otherThanCmd

\* interactiveCommand(options) up to the scan: the profile the user picks
InteractiveCommand(includeRisky, config, selectedProfile) ==
  /\ cmd.pc = "idle"
  /\ LET known == selectedProfile \in DOMAIN CmdProfiles
     IN cmd' = [cmd0 EXCEPT
                  !.which = "interactive",
                  !.options = [includeRisky |-> includeRisky],
                  !.config = config,
                  !.byProfile = known,
                  !.includeRisky = includeRisky,
                  !.scanners = IF known
                               THEN CmdProfiles[selectedProfile].categories
                               ELSE CmdCategories]
  /\ UNCHANGED otherThanCmd

\* the scans return: nothing found, nothing visible, every visible result
\* selected (--all, --json), or the selection prompts
ScanReturns(found) ==
  /\ cmd.pc = "scanning"
  /\ LET results == scanResultsOf(cmd.scanners, found)
         visible == visibleResults(results, cmd.config, cmd.includeRisky)
         scanned == [cmd EXCEPT !.scanResults = results]
         c       == [scanned EXCEPT !.offered = visible]
     IN cmd' =
          IF \A k \in DOMAIN results : results[k].items = <<>>
          THEN returnNull(scanned)
          ELSE IF visible = <<>> THEN returnNull(scanned)
          ELSE IF cmd.which = "clean" /\ (cmd.options.all \/ cmd.options.json)
          THEN withSelection(c, [k \in 1..Len(visible) |->
                                   [categoryId |-> visible[k].category,
                                    items      |-> visible[k].items]])
          ELSE [c EXCEPT !.pc = "selecting"]
  /\ UNCHANGED otherThanCmd

\* the user answers the selection prompts
Select(cats, paths) ==
  /\ cmd.pc = "selecting"
  /\ cmd' = withSelection(cmd,
              IF cmd.which = "interactive" /\ cmd.byProfile
              THEN selectFrom(cmd.offered, paths)
              ELSE selectItemsInteractively(cmd.offered, cats, paths))
  /\ UNCHANGED otherThanCmd

\* the user answers the confirmation prompt
Confirm(proceed) ==
  /\ cmd.pc = "confirming"
  /\ cmd' = IF proceed
            THEN [cmd EXCEPT !.confirmed = "yes", !.pc = pcAfterConfirm(cmd)]
            ELSE [returnNull(cmd) EXCEPT !.confirmed = "no"]
  /\ UNCHANGED otherThanCmd

\* the dry-run branch of cleanCommand
DryRunReturns ==
  /\ cmd.pc = "dryRun"
  /\ cmd' = [cmd EXCEPT
               !.pc = "returned",
               !.returned =
                  <<[results |->
                       [k \in 1..Len(cmd.selectedItems) |->
                          [category     |-> cmd.selectedItems[k].categoryId,
                           cleanedItems |-> Len(cmd.selectedItems[k].items),
                           freedSpace   |-> SumItemSizes(cmd.selectedItems[k].items),
                           errors       |-> 0]],
                     totalFreedSpace   |-> SumSelected(cmd.selectedItems).size,
                     totalCleanedItems |-> SumSelected(cmd.selectedItems).items,
                     totalErrors       |-> 0]>>]
  /\ UNCHANGED otherThanCmd

\* one iteration of the clean loop: scanner.clean(items, dryRun) returns
\* with every item cleaned (ok) or with none and an error
CleanOne(ok) ==
  /\ cmd.pc = "cleaning"
  /\ cmd.idx <= Len(cmd.selectedItems)
  /\ LET s == cmd.selectedItems[cmd.idx]
         result == [category     |-> s.categoryId,
                    cleanedItems |-> IF ok THEN Len(s.items) ELSE 0,
                    freedSpace   |-> IF ok THEN SumItemSizes(s.items) ELSE 0,
                    errors       |-> IF ok THEN 0 ELSE 1]
     IN cmd' = [cmd EXCEPT
                  !.cleanCalls = Append(@, [categoryId |-> s.categoryId,
                                            items      |-> s.items,
                                            confirmed  |-> cmd.confirmed]),
                  !.cleanResults =
                     [results           |-> Append(@.results, result),
                      totalFreedSpace   |-> @.totalFreedSpace + result.freedSpace,
                      totalCleanedItems |-> @.totalCleanedItems + result.cleanedItems,
                      totalErrors       |-> @.totalErrors + result.errors],
                  !.idx = @ + 1]
  /\ UNCHANGED otherThanCmd

\* the clean loop is over: the command returns cleanResults
CleanReturns ==
  /\ cmd.pc = "cleaning"
  /\ cmd.idx > Len(cmd.selectedItems)
  /\ cmd' = [cmd EXCEPT !.pc = "returned", !.returned = <<cmd.cleanResults>>]
  /\ UNCHANGED otherThanCmd

CmdNext ==
  \/ \E options \in CleanCommandOptions : \E config \in CmdConfigs :
       CleanCommand(options, config)
  \/ \E includeRisky \in BOOLEAN : \E config \in CmdConfigs :
       \E selectedProfile \in {"manual", "quick", "mine"} :
         InteractiveCommand(includeRisky, config, selectedProfile)
  \/ \E found \in SUBSET {"temp-files", "docker", "downloads"} :
       ScanReturns(found)
  \/ \E cats \in SUBSET {"temp-files", "docker", "downloads"} :
       \E paths \in SUBSET {"d1", "d2"} : Select(cats, paths)
  \/ \E proceed \in BOOLEAN : Confirm(proceed)
  \/ DryRunReturns
  \/ \E ok \in BOOLEAN : CleanOne(ok)
  \/ CleanReturns

(***************************************************************************)
(* The cleaning profiles (utils/config.ts).                                *)
(***************************************************************************)
\* a profile: its id and its categories
Profile(id, categories) == [id |-> id, categories |-> categories]

BUILTIN_PROFILES ==
  [quick     |-> Profile("quick", <<"temp-files">>),
   developer |-> Profile("developer", <<"docker">>),
   full      |-> Profile("full", <<"temp-files", "docker">>)]

\* the ids and the definitions custom profiles are given
CustomIds == {"mine", "other"}
CustomCategories == {<<"docker">>, <<"downloads">>}

\* a record of profiles without entries
NoProfiles == [id \in {} |-> Profile(id, <<>>)]

\* the profiles file: absent, not JSON, or the JSON of a record of profiles
NoFile == [kind |-> "absent", profiles |-> NoProfiles]
BadFile == [kind |-> "garbage", profiles |-> NoProfiles]
JsonFile(profiles) == [kind |-> "json", profiles |-> profiles]

\* the records of profiles over the ids of ids, each with one of the
\* definitions
ProfileRecords(ids) ==
  UNION {{[id \in D |-> Profile(id, f[id])] : f \in [D -> CustomCategories]} :
           D \in SUBSET ids}

\* what the profiles file may hold when the program starts: custom
\* profiles, also under the id of a built-in profile
ProfileFiles ==
  {NoFile, BadFile} \cup {JsonFile(r) : r \in ProfileRecords({"mine", "quick"})}

\* Object.assign(profiles, customProfiles)
assign(profiles, customProfiles) ==
  [id \in DOMAIN profiles \cup DOMAIN customProfiles |->
     IF id \in DOMAIN customProfiles THEN customProfiles[id] ELSE profiles[id]]

\* the profiles loadProfiles builds when nothing is cached
loaded(file) ==
  IF file.kind = "json" THEN assign(BUILTIN_PROFILES, file.profiles)
  ELSE BUILTIN_PROFILES

\* what loadProfiles() returns: the cached record, or the one it builds
loadProfiles(p) == IF p.cache # <<>> THEN p.cache[1] ELSE loaded(p.file)

\* getProfile(profileId): the cached profile, else the built-in one, else
\* undefined
getProfile(p, profileId) ==
  IF p.cache # <<>> /\ profileId \in DOMAIN p.cache[1]
  THEN <<p.cache[1][profileId]>>
  ELSE IF profileId \in DOMAIN BUILTIN_PROFILES
       THEN <<BUILTIN_PROFILES[profileId]>>
       ELSE <<>>

\* the entries of profiles whose id is not built in: what is written
customProfilesOf(profiles) ==
  [id \in DOMAIN profiles \ DOMAIN BUILTIN_PROFILES |-> profiles[id]]

\* the file after writeFile(PROFILES_FILE, content): written, untouched
\* when the call (or mkdir before it) fails, or left cut short by a
\* failure during the write
written(file, profiles, outcome) ==
  CASE outcome = "ok"     -> JsonFile(customProfilesOf(profiles))
    [] outcome = "failed" -> file
    [] OTHER              -> BadFile

WriteOutcomes == {"ok", "failed", "torn"}

\* the record of the call just made: the function, its argument, how it
\* ended ("" when it returned) and the state it started from
called(fn, id, threw) ==
  [fn |-> fn, id |-> id, threw |-> threw,
   cacheBefore |-> prof.cache, fileBefore |-> prof.file,
   visibleBefore |-> loadProfiles(prof)]

NoProfCall ==
  [fn |-> "none", id |-> "", threw |-> "",
   cacheBefore |-> <<>>, fileBefore |-> NoFile, visibleBefore |-> NoProfiles]

\* the program starts with nothing cached
ProfInit ==
  \E file \in ProfileFiles :
     prof = [cache |-> <<>>, file |-> file, last |-> NoProfCall]

\* loadProfiles()
LoadProfiles ==
  /\ prof' = [prof EXCEPT !.cache = <<loadProfiles(prof)>>,
                          !.last = called("loadProfiles", "", "")]
  /\ UNCHANGED otherThanProf

\* saveProfile(profile): the record loadProfiles returns is the cached one,
\* and the profile is put in it before the file is written
SaveProfile(profile, outcome) ==
  /\ LET profiles == loadProfiles(prof)
         changed  == assign(profiles, [id \in {profile.id} |-> profile])
     IN prof' =
          IF profile.id \in DOMAIN BUILTIN_PROFILES
          THEN [prof EXCEPT !.cache = <<profiles>>,
                            !.last = called("saveProfile", profile.id, "builtin")]
          ELSE [cache |-> <<changed>>,
                file  |-> written(prof.file, changed, outcome),
                last  |-> called("saveProfile", profile.id,
                                 IF outcome = "ok" THEN "" ELSE "write")]
  /\ UNCHANGED otherThanProf

\* deleteProfile(profileId)
DeleteProfile(profileId, outcome) ==
  /\ LET profiles == loadProfiles(prof)
         changed  == [id \in DOMAIN profiles \ {profileId} |-> profiles[id]]
     IN prof' =
          IF profileId \in DOMAIN BUILTIN_PROFILES
          THEN [prof EXCEPT !.last = called("deleteProfile", profileId, "builtin")]
          ELSE IF profileId \notin DOMAIN profiles
          THEN [prof EXCEPT !.cache = <<profiles>>,
                            !.last = called("deleteProfile", profileId, "notfound")]
          ELSE [cache |-> <<changed>>,
                file  |-> written(prof.file, changed, outcome),
                last  |-> called("deleteProfile", profileId,
                                 IF outcome = "ok" THEN "" ELSE "write")]
  /\ UNCHANGED otherThanProf

\* clearProfilesCache()
ClearProfilesCache ==
  /\ prof' = [prof EXCEPT !.cache = <<>>,
                          !.last = called("clearProfilesCache", "", "")]
  /\ UNCHANGED otherThanProf

ProfNext ==
  \/ LoadProfiles
  \/ \E id \in CustomIds \cup {"quick"} : \E categories \in CustomCategories :
       \E outcome \in WriteOutcomes : SaveProfile(Profile(id, categories), outcome)
  \/ \E profileId \in CustomIds \cup {"quick"} : \E outcome \in WriteOutcomes :
       DeleteProfile(profileId, outcome)
  \/ ClearProfilesCache

(***************************************************************************)
(* The specifications.                                                     *)
(***************************************************************************)
vars == <<rmVars, szVars, fnVars, hVars, cVars, pVars>>

Init == RmInit /\ SzIdle /\ FnIdle /\ HIdle /\ CIdle /\ PIdle

Next == RmNext

\* the removal executor
Spec == Init /\ [][Next]_vars

SizeSpecInit == SizeInit /\ RmIdle /\ FnIdle /\ HIdle /\ CIdle /\ PIdle

\* getDirectorySize
SizeSpec == SizeSpecInit /\ [][SizeNext]_vars

PoolSpecInit == PoolInit /\ RmIdle /\ FnIdle /\ HIdle /\ CIdle /\ PIdle

\* runWithConcurrencyLimit with a capacity of 1..MaxConcurrency
PoolSpec == PoolSpecInit /\ [][SizeNext]_vars

WideSpecInit == WideInit /\ RmIdle /\ FnIdle /\ HIdle /\ CIdle /\ PIdle

\* getDirectorySize on wide trees, the behaviours in which the operations
\* complete in the order they were issued
WideSpec == WideSpecInit /\ [][InOrderNext]_vars

EnumSpecInit == EnumInit /\ RmIdle /\ HIdle /\ CIdle /\ PIdle

\* getSize, getDirectorySize, getItems and getDirectoryItems, one call
EnumSpec == EnumSpecInit /\ [][EnumNext]_vars

HarnessSpecInit == HIdle /\ CIdle /\ PIdle /\ RmIdle /\ SzIdle /\ FnIdle

\* runScans, one call
HarnessSpec == HarnessSpecInit /\ [][HarnessNext]_vars

DupSpecInit == RmIdle /\ SzIdle /\ HIdle /\ CIdle /\ PIdle /\ DupInit

\* findDuplicates, one call
DupSpec == DupSpecInit /\ [][DupNext]_vars

UtilSpecInit == RmIdle /\ SzIdle /\ HIdle /\ CIdle /\ PIdle /\ FnIdle

\* classifyError, isSystemPath and expandPath, one call
UtilSpec == UtilSpecInit /\ [][UtilNext]_vars

CmdSpecInit == RmIdle /\ SzIdle /\ HIdle /\ FnIdle /\ CIdle /\ PIdle

\* cleanCommand and interactiveCommand, one call
CmdSpec == CmdSpecInit /\ [][CmdNext]_vars

ProfSpecInit == RmIdle /\ SzIdle /\ HIdle /\ FnIdle /\ CIdle /\ ProfInit

\* the profile functions, any sequence of calls
ProfSpec == ProfSpecInit /\ [][ProfNext]_vars

(***************************************************************************)
(* The claims about the removal executor.                                  *)
(***************************************************************************)
IsSystemItem(k) == isSystemRef[PathRef(items[k].path, "")]

NonSystemItems == {k \in DOMAIN items : ~IsSystemItem(k)}

ItemsIn(st) == {k \in DOMAIN items : status[k] = st}

RmCallsOf(k) == {c \in DOMAIN rmCalls : rmCalls[c].item = k}

\* the cleaned count a call reports: success of removeItems, cleanedItems
\* of a scanner's clean
Cleaned == IF op = "removeItems" THEN ret.success ELSE ret.cleanedItems

RECURSIVE SumOver(_, _)
SumOver(fsys, ps) ==
  IF ps = {} THEN 0
  ELSE LET q == CHOOSE x \in ps : TRUE
       IN getSize(fsys, q) + SumOver(fsys, ps \ {q})

\* totalSize of a scan over the paths of the model
scanTotalSize(fsys) == SumOver(fsys, ItemPaths)

\* C1: in a real run of any clean, no rm is issued on a path for which
\* isSystemPath is true.
C1_NoDeleteOnSystemPath ==
  (op # "none" /\ ~dryRun) =>
    \A c \in DOMAIN rmCalls : ~isSystemRef[rmCalls[c].path]

\* C2: in removeItems, an item on the system-path deny list is skipped
\* before anything else, dry run or not: no rm is issued for it, it is not
\* counted in success and its size is not added to freedSpace.
C2_SystemPathSkipped ==
  op = "removeItems" =>
    /\ \A c \in DOMAIN rmCalls : ~isSystemRef[rmCalls[c].path]
    /\ \A k \in DOMAIN items :
         IsSystemItem(k) =>
           /\ RmCallsOf(k) = {}
           /\ status[k] \in {"Pending", "Skipped"}
    /\ ret.success =
         Cardinality({k \in NonSystemItems : status[k] \in {"Simulated", "Removed"}})
    /\ ret.freedSpace =
         SumSizes(items, {k \in NonSystemItems : status[k] \in {"Simulated", "Removed"}})

\* removeItems has returned from a real run whose first item was protected
\* and whose second was removed
C2_Witness ==
  /\ op = "removeItems" /\ pc = "done" /\ ~dryRun
  /\ Len(items) = 2
  /\ IsSystemItem(1) /\ items[1].size > 0 /\ fs0["SysTemp"].entries # {}
  /\ status = <<"Skipped", "Removed">>

\* C3: a dry run of any clean issues no rm and no docker prune, and leaves
\* the file system as the call found it, so that a scan returns the same
\* totalSize.
C3_DryRunChangesNothing ==
  (op # "none" /\ dryRun) =>
    /\ rmCalls = <<>>
    /\ pruneCalls = 0
    /\ fs = fs0
    /\ scanTotalSize(fs) = scanTotalSize(fs0)

\* a dry run of a scanner's clean has returned after counting the entries
\* of a directory that holds some
C3_Witness ==
  /\ op = "scannerClean" /\ pc = "done" /\ dryRun
  /\ ret.cleanedItems > 0
  /\ scanTotalSize(fs) > 0

\* C4: a dry run of any clean reports as cleaned the number of its items
\* that are not protected, and as freed the sum of their recorded sizes.
C4_DryRunCountsAll ==
  (pc = "done" /\ dryRun) =>
    /\ Cleaned = Cardinality(NonSystemItems)
    /\ ret.freedSpace = SumSizes(items, NonSystemItems)

\* C5, the state of a run of removeItems: the items before idx are in a
\* terminal state and the others Pending, rm is called at most once per
\* item and in list order, and the counters add up to the items processed,
\* to all of them on return.
C5_Sequential ==
  op = "removeItems" =>
    /\ idx \in 1..(Len(items) + 1)
    /\ \A k \in DOMAIN items :
         /\ k < idx => status[k] \in {"Skipped", "Simulated", "Removed", "Failed"}
         /\ k >= idx => status[k] = "Pending"
         /\ Cardinality(RmCallsOf(k)) <= 1
         /\ (RmCallsOf(k) # {}) <=> status[k] \in {"Removed", "Failed"}
    /\ \A c, d \in DOMAIN rmCalls : c < d => rmCalls[c].item < rmCalls[d].item
    /\ ret.success + ret.failed = idx - 1
    /\ pc = "done" => ret.success + ret.failed = Len(items)

\* C5: removeItems processes its items one after another in list order;
\* each leaves Pending once, for one terminal state it keeps, with at most
\* one rm; a failed or skipped item does not stop the loop; on return
\* success + failed = items.length.
C5_OneTerminalStateEach ==
  /\ []C5_Sequential
  /\ [][(op = "removeItems" /\ op' = "removeItems") =>
          /\ idx' \in {idx, idx + 1}
          /\ \A k \in DOMAIN status :
               status[k] # "Pending" => status'[k] = status[k]]_vars

\* removeItems has returned after its first item failed and its second was
\* removed
C5_Witness ==
  /\ op = "removeItems" /\ pc = "done"
  /\ status = <<"Failed", "Removed">>
  /\ Len(rmCalls) = 2

\* C6 for removeItems alone: in a real run of removeItems, success counts
\* the items that ended Removed and freedSpace is the sum of their recorded
\* sizes, whatever the paths hold when they are removed.
C6_FreedIsRecordedSize ==
  (op = "removeItems" /\ ~dryRun) =>
    /\ ret.success = Cardinality(ItemsIn("Removed"))
    /\ ret.freedSpace = SumSizes(items, ItemsIn("Removed"))

\* removeItems has removed an item whose recorded size is not the size the
\* path had
C6_Witness ==
  /\ op = "removeItems" /\ pc = "done" /\ ~dryRun
  /\ \E k \in ItemsIn("Removed") :
       /\ items[k].size # getSize(fs0, items[k].path)
       /\ getSize(fs0, items[k].path) > 0

\* C6 as stated: in a real run of any clean, the cleaned count is the
\* number of items that ended Removed and freedSpace the sum of their
\* recorded sizes.
C6_RealRunFreesRecordedSizes ==
  (pc = "done" /\ ~dryRun /\ op \in {"removeItems", "scannerClean"}) =>
    /\ Cleaned = Cardinality(ItemsIn("Removed"))
    /\ ret.freedSpace = SumSizes(items, ItemsIn("Removed"))

\* C7: a real run of removeItems has one classified entry in its errors
\* for every item that ended Failed.
C7_FailuresClassified ==
  (op = "removeItems" /\ ~dryRun) =>
    Len(ret.errors) = Cardinality(ItemsIn("Failed"))

(***************************************************************************)
(* The claims about the pools and the size aggregation.                    *)
(***************************************************************************)
Entries == DOMAIN tree

Dirs == {d \in Entries : tree[d].kind = "dir"}

\* the tasks of the pool of d that have started and not yet completed
Running(d) ==
  {c \in Entries : tree[c].parent = d /\ sz.st[c] \in {"io", "pool"}}

\* the operations in flight: the stats and the listings issued and not
\* yet completed
InFlight == {n \in Entries : sz.st[n] = "io"}

RECURSIVE Walked(_)
\* the entry is reached by the walk: every directory above it is listed
Walked(n) ==
  \/ tree[n].parent = 0
  \/ /\ tree[tree[n].parent].ok
     /\ Walked(tree[n].parent)

\* the entries a task is made for
TaskEntries == {n \in Entries : n # 1 /\ tree[n].kind # "other" /\ Walked(n)}

\* the regular files of the subtree whose stat succeeds
StatableFiles ==
  {n \in Entries : tree[n].kind = "file" /\ tree[n].ok /\ tree[1].ok /\ Walked(n)}

RECURSIVE SumFileSizes(_)
SumFileSizes(ns) ==
  IF ns = {} THEN 0
  ELSE LET n == CHOOSE x \in ns : TRUE
       IN fileSize(n) + SumFileSizes(ns \ {n})

\* C8 (state part): a pool of capacity N never has more than N tasks started
\* and not yet completed: the running tasks of every pool are all in its
\* set executing, which never holds more than N
C8_AtMostNRunning ==
  \A d \in Dirs :
    /\ Running(d) \subseteq sz.executing[d]
    /\ Cardinality(sz.executing[d]) <= concurrency

C9_GlobalCeiling == Cardinality(InFlight) <= MAX_CONCURRENT_IO

\* C10: getDirectorySize returns the sum of the sizes of the regular files
\* of the subtree whose stat succeeds, whatever the order of the
\* completions; when it returns every task has run exactly once and has
\* completed, and no task has run twice at any time
C10_SizeIsSumOfStatableFiles ==
  /\ \A n \in Entries : sz.runs[n] <= 1
  /\ sz.st[1] = "done" =>
       /\ sz.value[1] = SumFileSizes(StatableFiles)
       /\ sz.issued = <<>>
       /\ \A n \in Entries \ {1} :
            IF n \in TaskEntries /\ tree[1].ok
            THEN sz.runs[n] = 1 /\ sz.st[n] = "done"
            ELSE sz.runs[n] = 0 /\ sz.st[n] = "idle"

\* getDirectorySize has returned a total that counts a file next to a file
\* whose stat failed and a directory that could not be listed, the counted
\* file listed last and completed first
C10_Witness ==
  /\ sz.st[1] = "done"
  /\ sz.value[1] > 0
  /\ \E a, b, c \in TaskEntries :
       /\ tree[a].parent = tree[b].parent /\ tree[b].parent = tree[c].parent
       /\ tree[a].kind = "file" /\ ~tree[a].ok
       /\ tree[b].kind = "dir" /\ ~tree[b].ok
       /\ c \in StatableFiles /\ c > a /\ c > b
       /\ sz.results[tree[c].parent][1] = fileSize(c)

(***************************************************************************)
(* The claims about the enumerator.                                        *)
(***************************************************************************)
\* the paths of the items returned
ItemPathsOf(its) == {its[k].path : k \in DOMAIN its}

RECURSIVE Level(_)
\* the level of an entry below the root, the root being level 0
Level(n) == IF tree[n].parent = 0 THEN 0 ELSE 1 + Level(tree[n].parent)

RECURSIVE Visible(_)
\* every directory above the entry can be listed, and can be stat'ed
\* unless it is the root
Visible(n) ==
  LET d == tree[n].parent
  IN /\ tree[d].ok
     /\ \/ d = 1
        \/ tree[d].stat /\ Visible(d)

\* the size getItems records for entry n
RecordedSize(n) ==
  IF tree[n].kind = "dir" THEN getDirectorySize(tree, n) ELSE fileSize(n)

\* entry n passes the filters o as the claims read them: a filter applies
\* when it is set
PassesFilters(o, n) ==
  /\ o.minAge # <<>> => tree[n].age >= o.minAge[1]
  /\ o.minSize # <<>> => RecordedSize(n) >= o.minSize[1]

\* C11: getSize, getDirectorySize, getItems and getDirectoryItems never
\* reject; a root that cannot be opened gives 0 or the empty list; an entry
\* that fails to stat and the entries of a directory that fails to list are
\* left out while every other entry is still returned.
C11_NeverRejects ==
  inp.fn # "none" =>
    /\ ~answer.rejected
    /\ inp.fn = "getSize" =>
         (~tree[inp.path].stat => answer.value = 0)
    /\ inp.fn = "getDirectorySize" =>
         (~tree[inp.path].ok => answer.value = 0)
    /\ inp.fn = "getDirectoryItems" =>
         ItemPathsOf(answer.items) =
           {n \in DOMAIN tree : tree[n].parent = 1 /\ tree[1].ok /\ tree[n].stat}
    /\ (inp.fn = "getItems" /\ ~truthy(inp.options.minAge)
          /\ ~truthy(inp.options.minSize)) =>
         ItemPathsOf(answer.items) =
           {n \in DOMAIN tree \ {1} :
              /\ Visible(n) /\ tree[n].stat
              /\ Level(n) <= maxDepthOf(inp.options) + 1
              /\ ~inp.options.recursive => tree[n].parent = 1}

\* a recursive getItems has returned an entry next to one whose stat failed,
\* and a directory whose listing failed without its entries
C11_Witness ==
  /\ inp.fn = "getItems" /\ inp.options.recursive
  /\ \E a, b \in DOMAIN tree :
       /\ tree[a].parent = 1 /\ tree[b].parent = 1
       /\ ~tree[a].stat
       /\ tree[b].kind = "dir" /\ tree[b].stat /\ ~tree[b].ok
       /\ b \in ItemPathsOf(answer.items)
       /\ a \notin ItemPathsOf(answer.items)

\* C12: every item getItems returns satisfies the filters of the call: its
\* age is at least minAge when minAge is set, its size at least minSize when
\* minSize is set.
C12_ItemsSatisfyFilters ==
  inp.fn = "getItems" =>
    \A k \in DOMAIN answer.items :
      LET it == answer.items[k]
      IN /\ it.size = RecordedSize(it.path)
         /\ inp.options.minAge # <<>> => it.age >= inp.options.minAge[1]
         /\ inp.options.minSize # <<>> => it.size >= inp.options.minSize[1]

\* C13: a recursive getItems returns every entry within the depth limit
\* that itself passes both filters.
C13_EveryPassingEntryReturned ==
  (inp.fn = "getItems" /\ inp.options.recursive) =>
    \A n \in DOMAIN tree \ {1} :
      (/\ Visible(n) /\ tree[n].stat
       /\ Level(n) <= maxDepthOf(inp.options) + 1
       /\ PassesFilters(inp.options, n))
      => n \in ItemPathsOf(answer.items)

\* C14: getItems lists no directory more than maxDepth levels below the
\* root, and only the root when recursive is unset; every item is an entry
\* of a directory it has listed.
C14_DepthLimit ==
  inp.fn = "getItems" =>
    /\ \A l \in answer.listed :
         /\ l.depth = Level(l.dir)
         /\ l.depth <= maxDepthOf(inp.options)
         /\ ~inp.options.recursive => l.dir = 1
    /\ \A k \in DOMAIN answer.items :
         \E l \in answer.listed : tree[answer.items[k].path].parent = l.dir

\* a recursive getItems with maxDepth 0 has returned a directory of the
\* root that holds an entry which passes the filters, and not that entry
C14_Witness ==
  /\ inp.fn = "getItems" /\ inp.options.recursive
  /\ inp.options.maxDepth = <<0>>
  /\ \E d, n \in DOMAIN tree :
       /\ tree[d].parent = 1 /\ tree[n].parent = d
       /\ tree[d].ok /\ tree[n].stat /\ PassesFilters(inp.options, n)
       /\ d \in ItemPathsOf(answer.items)
       /\ n \notin ItemPathsOf(answer.items)

(***************************************************************************)
(* The claims about the scan harness.                                      *)
(***************************************************************************)
\* the categories in the order their scans completed
CompletionOrder == [k \in 1..Len(h.progress) |-> h.progress[k].category]

\* C15: the results of the summary runScans returns are in the order the
\* categories were requested, one per category, whatever the order in which
\* the scans completed.
C15_RequestedOrder ==
  h.pc = "done" =>
    /\ Len(h.summary.results) = Len(h.ids)
    /\ \A i \in DOMAIN h.ids : h.summary.results[i].category = h.ids[i]

\* a call of three categories returned after its last category completed
\* first and its first category last
C15_Witness ==
  /\ h.pc = "done"
  /\ Len(h.ids) = 3
  /\ CompletionOrder = <<h.ids[3], h.ids[2], h.ids[1]>>

\* C16: when scans throw, the summary still has exactly one result per
\* requested category; the result of a failed scan has the category, no
\* items and an error, and the result of every other category is the one
\* its scanner returned, without an error field.
C16_FailureIsolated ==
  h.pc = "done" =>
    /\ Len(h.summary.results) = Len(h.ids)
    /\ \A i \in DOMAIN h.ids :
         LET r == h.summary.results[i]
         IN /\ r.category = h.ids[i]
            /\ IF h.threw[i]
               THEN /\ r.items = <<>>
                    /\ "error" \in DOMAIN r
               ELSE /\ r = h.returned[i]
                    /\ "error" \notin DOMAIN r

\* a call returned in which one scan threw and another returned items
C16_Witness ==
  /\ h.pc = "done"
  /\ \E i, j \in DOMAIN h.ids :
       /\ h.threw[i]
       /\ ~h.threw[j]
       /\ h.summary.results[j].items # <<>>

\* the scans that have settled
ScansDone == {i \in DOMAIN h.state : h.state[i] = "done"}

\* the scans that settle in a step
JustFinished ==
  {i \in DOMAIN h.ids : h.state[i] = "running" /\ h'.state[i] = "done"}

\* the calls of onProgress so far are one per settled scan, numbered
\* 1, 2, ... with the total of the call, and the last scan's call has the
\* total as its count
ProgressCounts ==
  h.pc # "idle" =>
    /\ Len(h.progress) = Cardinality(ScansDone)
    /\ \A k \in DOMAIN h.progress :
         /\ h.progress[k].completed = k
         /\ h.progress[k].completed <= Len(h.ids)
         /\ h.progress[k].total = Len(h.ids)
    /\ (h.pc = "done" /\ h.ids # <<>>) =>
         h.progress[Len(h.progress)].completed = Len(h.ids)

\* a step in which a scan settles, with success or failure, adds one call of
\* onProgress, for the category of that scan; no other step adds a call
ProgressStep ==
  (h.pc = "running") =>
    /\ \A i \in JustFinished :
         h'.progress = Append(h.progress,
                              [completed |-> Len(h.progress) + 1,
                               total     |-> Len(h.ids),
                               category  |-> h.ids[i]])
    /\ JustFinished = {} => h'.progress = h.progress

SizeInvariant(r) == r.totalSize = SumItemSizes(r.items)

\* C18: every ScanResult a scanner returned, every result the harness
\* keeps, the empty result of a failed scan included, and every result of
\* the summary has totalSize equal to the sum of the sizes of its items.
C18_TotalSizeIsSum ==
  h.pc # "idle" =>
    /\ \A i \in ScansDone :
         /\ SizeInvariant(h.returned[i])
         /\ SizeInvariant(h.results[i])
    /\ \A i \in DOMAIN h.summary.results :
         SizeInvariant(h.summary.results[i])

\* a call returned with the result of a scanner that found two items and
\* the empty result of a failed scan
C18_Witness ==
  /\ h.pc = "done"
  /\ \E i, j \in DOMAIN h.ids :
       /\ ~h.threw[i]
       /\ Len(h.summary.results[i].items) = 2
       /\ h.summary.results[i].totalSize >= 2
       /\ h.threw[j]
       /\ h.summary.results[j].totalSize = 0

(***************************************************************************)
(* The claims about the duplicate detector.                                *)
(***************************************************************************)
\* the findDuplicates call has returned
Found == inp.fn = "findDuplicates"

\* the items of a list, as a set
ItemSet(its) == {its[k] : k \in DOMAIN its}

\* C19: in every group findDuplicates returns, keptItem is an item of the
\* group, no item is more recent, every other item as recent comes after it
\* in lexicographic path order, and reclaimable is the items without
\* keptItem.
C19_KeptIsNewest ==
  Found =>
    \A g \in answer.groups :
      /\ g.keptItem \in ItemSet(g.items)
      /\ \A y \in ItemSet(g.items) :
           /\ y.modifiedAt <= g.keptItem.modifiedAt
           /\ (y # g.keptItem /\ y.modifiedAt = g.keptItem.modifiedAt)
                => lexLess(g.keptItem.path, y.path)
      /\ ItemSet(g.reclaimable) = ItemSet(g.items) \ {g.keptItem}
      /\ Len(g.reclaimable) = Len(g.items) - 1

\* three identical files with times T1 < T2 < T3 gave one group that keeps
\* the third and offers the other two
C19_Witness ==
  /\ Found
  /\ \E g \in answer.groups :
       /\ Len(g.items) = 3
       /\ {x.modifiedAt : x \in ItemSet(g.items)} = {1, 2, 3}
       /\ g.keptItem.modifiedAt = 3
       /\ {x.modifiedAt : x \in ItemSet(g.reclaimable)} = {1, 2}

\* two files as recent as each other, the one first in path order found
\* last, gave a group that keeps it
C19_TieWitness ==
  /\ Found
  /\ \E g \in answer.groups :
       /\ Len(g.items) >= 2
       /\ g.items[Len(g.items)] = g.keptItem
       /\ \E k \in 1..(Len(g.items) - 1) :
            g.items[k].modifiedAt = g.keptItem.modifiedAt

\* the enumerated file of a path
FileAt(path) ==
  inp.files[CHOOSE k \in DOMAIN inp.files : inp.files[k].path = path]

\* C20: every group findDuplicates returns has at least two items, all of
\* files that were enumerated and could be hashed, all of the same byte size
\* and with the same hash, each item's size and hash being the size and the
\* hash of the full content of its file.
C20_GroupsAreSameSizeAndHash ==
  Found =>
    \A g \in answer.groups :
      /\ Len(g.items) >= 2
      /\ \A x \in ItemSet(g.items) :
           /\ \E k \in DOMAIN inp.files : inp.files[k].path = x.path
           /\ FileAt(x.path).hashable
           /\ x.size = Len(FileAt(x.path).content)
           /\ x.contentHash = hashContent(FileAt(x.path).content)
      /\ \A x, y \in ItemSet(g.items) :
           /\ x.size = y.size
           /\ x.contentHash = y.contentHash

\* two files were grouped while a third of the same content, which could
\* not be hashed, is in no group
C20_Witness ==
  /\ Found
  /\ \E g \in answer.groups :
       /\ Len(g.items) = 2
       /\ \E k \in DOMAIN inp.files :
            /\ ~inp.files[k].hashable
            /\ inp.files[k].content = FileAt(g.keptItem.path).content
            /\ \A g2 \in answer.groups :
                 \A x \in ItemSet(g2.items) : x.path # inp.files[k].path

Taxonomy ==
  [EACCES       |-> "PERMISSION_DENIED",
   EPERM        |-> "PERMISSION_DENIED",
   ENOENT       |-> "FILE_NOT_FOUND",
   EBUSY        |-> "FILE_LOCKED",
   ENOTEMPTY    |-> "FILE_LOCKED",
   ENAMETOOLONG |-> "PATH_TOO_LONG",
   ENOSPC       |-> "DISK_FULL",
   ETIMEDOUT    |-> "TIMEOUT"]

\* C22: classifyError gives an Error whose code the taxonomy names the
\* class of that code, every other Error and every value that is not an
\* Error the class UNKNOWN, and isRecoverableError is true exactly for the
\* classes FILE_LOCKED and TIMEOUT.
C22_ErrorsClassified ==
  inp.fn = "classifyError" =>
    /\ answer.error.code =
         IF inp.error.isError /\ inp.error.code \in DOMAIN Taxonomy
         THEN Taxonomy[inp.error.code]
         ELSE "UNKNOWN"
    /\ answer.recoverable <=> answer.error.code \in {"FILE_LOCKED", "TIMEOUT"}

\* a value that is not an Error and carries the code ENOENT was classified
C22_Witness ==
  /\ inp.fn = "classifyError"
  /\ ~inp.error.isError
  /\ inp.error.code = "ENOENT"
  /\ answer.error.code = "UNKNOWN"
  /\ ~answer.recoverable

(***************************************************************************)
(* Claims about the commands.                                              *)
(***************************************************************************)
\* some record of seq names a risky category in the given field
RiskyIn(seq, field) ==
  \E k \in DOMAIN seq : safetyLevel[seq[k][field]] = "risky"

\* the scan found items of a risky category that the configuration does
\* not exclude
RiskyFound ==
  \E k \in DOMAIN cmd.scanResults :
     /\ safetyLevel[cmd.scanResults[k].category] = "risky"
     /\ cmd.scanResults[k].items # <<>>
     /\ cmd.scanResults[k].category \notin cmd.config.excludeCategories

\* C23: unless includeRisky is set (--risky, or the options of the profile
\* cleanCommand was given), no risky category is offered for selection,
\* selected, passed to a scanner's clean, or counted in the summary the
\* command returns, whatever the other options are.
C23_RiskyNeedsOptIn ==
  (cmd.pc # "idle" /\ ~cmd.includeRisky) =>
     /\ ~RiskyIn(cmd.offered, "category")
     /\ ~RiskyIn(cmd.selectedItems, "categoryId")
     /\ ~RiskyIn(cmd.cleanCalls, "categoryId")
     /\ cmd.returned # <<>> =>
          /\ ~RiskyIn(cmd.returned[1].results, "category")
          /\ cmd.returned[1].totalCleanedItems
               <= Len(scanItemsOf["temp-files"]) + Len(scanItemsOf["docker"])
          /\ cmd.returned[1].totalFreedSpace
               <= SumItemSizes(scanItemsOf["temp-files"])
                  + SumItemSizes(scanItemsOf["docker"])

\* a command without includeRisky whose scan found risky items returned a
\* summary
C23_Witness ==
  /\ cmd.pc = "returned"
  /\ ~cmd.includeRisky
  /\ RiskyFound
  /\ cmd.returned # <<>>
  /\ cmd.returned[1].totalCleanedItems > 0

\* C24: cleanCommand with dryRun invokes no scanner's clean, so removes
\* nothing; a summary it returns reports every selected item as cleaned, the
\* sum of the selected items' recorded sizes as freed space, and no error.
C24_DryRunTouchesNothing ==
  (cmd.pc # "idle" /\ cmd.which = "clean" /\ cmd.options.dryRun) =>
     /\ cmd.cleanCalls = <<>>
     /\ cmd.returned # <<>> =>
          LET summary == cmd.returned[1]
          IN /\ summary.totalCleanedItems = SumSelected(cmd.selectedItems).items
             /\ summary.totalFreedSpace = SumSelected(cmd.selectedItems).size
             /\ summary.totalErrors = 0
             /\ Len(summary.results) = Len(cmd.selectedItems)
             /\ \A k \in DOMAIN summary.results :
                  /\ summary.results[k].category = cmd.selectedItems[k].categoryId
                  /\ summary.results[k].cleanedItems
                       = Len(cmd.selectedItems[k].items)
                  /\ summary.results[k].freedSpace
                       = SumItemSizes(cmd.selectedItems[k].items)
                  /\ summary.results[k].errors = 0

\* a dry run of cleanCommand returned a summary of two selected categories
C24_Witness ==
  /\ cmd.pc = "returned"
  /\ cmd.which = "clean"
  /\ cmd.options.dryRun
  /\ cmd.returned # <<>>
  /\ Len(cmd.selectedItems) >= 2
  /\ cmd.returned[1].totalFreedSpace > 0

\* the command is one the claim says must ask: interactiveCommand, or
\* cleanCommand with none of yes, json and dryRun
MustAsk ==
  \/ cmd.which = "interactive"
  \/ cmd.which = "clean" /\ ~cmd.options.yes /\ ~cmd.options.json
     /\ ~cmd.options.dryRun

\* C25: cleanCommand with none of yes, json and dryRun invokes a scanner's
\* clean only after the confirmation prompt was answered true, and returns
\* null without cleaning when it is declined; interactiveCommand always
\* asks, and cleans nothing when declined.
C25_CleanOnlyAfterConfirm ==
  (cmd.pc # "idle" /\ MustAsk) =>
     /\ \A k \in DOMAIN cmd.cleanCalls : cmd.cleanCalls[k].confirmed = "yes"
     /\ cmd.pc = "cleaning" => cmd.confirmed = "yes"
     /\ cmd.returned # <<>> => cmd.confirmed = "yes"
     /\ cmd.confirmed = "no" =>
          /\ cmd.pc = "returned"
          /\ cmd.returned = <<>>
          /\ cmd.cleanCalls = <<>>

\* cleanCommand without yes, json and dryRun cleaned after a confirmation
C25_Witness ==
  /\ cmd.pc = "returned"
  /\ cmd.which = "clean"
  /\ MustAsk
  /\ cmd.confirmed = "yes"
  /\ cmd.cleanCalls # <<>>

\* interactiveCommand returned null on a declined confirmation
C25_DeclineWitness ==
  /\ cmd.pc = "returned"
  /\ cmd.which = "interactive"
  /\ cmd.confirmed = "no"
  /\ cmd.selectedItems # <<>>

\* the path, lower-cased and normalized, is a deny-listed directory or lies
\* inside one
InDenyList(p) ==
  LET n == toLowerCase(normalize(p))
  IN \E k \in 1..Len(systemPaths) :
        \/ n = systemPaths[k]
        \/ startsWith(n, systemPaths[k] \o <<Sep>>)

\* C26: isSystemPath(p) is true exactly when p, compared case-insensitively
\* after normalization, is a deny-listed directory or lies inside one, and
\* false for every other path.
C26_SystemPathIsDenyListed ==
  inp.fn = "isSystemPath" => answer.value = InDenyList(inp.path)

\* C27: expandPath throws 'Unsafe path detected' or returns a normalized
\* absolute path for which isSystemPath is false.
C27_ExpandedPathIsSafe ==
  (inp.fn = "expandPath" /\ ~answer.threw) =>
     /\ isAbsolute(answer.value)
     /\ normalize(answer.value) = answer.value
     /\ ~isSystemPath(answer.value)

\* expandPath threw on a path that reaches a deny-listed directory through
\* the home directory
C27_Witness ==
  /\ inp.fn = "expandPath"
  /\ startsWith(inp.path, <<"~">>)
  /\ answer.threw

\* expandPath returned the expansion of a path with a tilde
C27_ReturnWitness ==
  /\ inp.fn = "expandPath"
  /\ startsWith(inp.path, <<"~">>)
  /\ ~answer.threw
  /\ startsWith(answer.value, HOME)

(***************************************************************************)
(* A claim about paths that are gone when the removal reaches them.        *)
(***************************************************************************)
\* removeItems, in a real run, reaches an item that is off the deny list
\* and whose path does not exist
ReachesMissing ==
  /\ op = "removeItems" /\ pc = "loop" /\ ~dryRun
  /\ idx <= Len(items)
  /\ idx' = idx + 1
  /\ ~isSystemRef[PathRef(items[idx].path, "")]
  /\ fs[items[idx].path].kind = "none"

\* C28: in a real run, an item whose path no longer exists when removeItem
\* reaches it (it was removed meanwhile, or is listed twice) counts as a
\* success and its recorded size is added to freedSpace; no failure is
\* reported for it.
C28_MissingPathCountsAsFreed ==
  [][ReachesMissing =>
        /\ status'[idx] = "Removed"
        /\ ret'.success = ret.success + 1
        /\ ret'.freedSpace = ret.freedSpace + items[idx].size
        /\ ret'.failed = ret.failed]_vars

\* a real run of removeItems on the same existing path listed twice has
\* returned: both count, and the recorded size is freed twice
C28_Witness ==
  /\ op = "removeItems" /\ pc = "done" /\ ~dryRun
  /\ Len(items) = 2
  /\ items[1] = items[2]
  /\ items[1].size > 0
  /\ fs0[items[1].path].kind # "none"
  /\ status = <<"Removed", "Removed">>
  /\ ret.success = 2
  /\ ret.freedSpace = 2 * items[1].size

(***************************************************************************)
(* Claims about the cleaning profiles.                                     *)
(***************************************************************************)
\* every built-in id resolves to its built-in definition, through
\* loadProfiles and through getProfile
BuiltinsResolve ==
  \A id \in DOMAIN BUILTIN_PROFILES :
     /\ id \in DOMAIN loadProfiles(prof)
     /\ loadProfiles(prof)[id] = BUILTIN_PROFILES[id]
     /\ getProfile(prof, id) = <<BUILTIN_PROFILES[id]>>

\* C29: after any sequence of loadProfiles, saveProfile, deleteProfile and
\* clearProfilesCache, and whatever the profiles file contains, every
\* built-in id resolves through loadProfiles and getProfile to its built-in
\* definition; saveProfile and deleteProfile with a built-in id throw and
\* change neither the profiles visible through the cache nor the file.
C29_BuiltinsAreFixed ==
  prof.last.fn # "none" =>
     /\ BuiltinsResolve
     /\ prof.last.threw = "builtin" =>
          /\ prof.file = prof.last.fileBefore
          /\ loadProfiles(prof) = prof.last.visibleBefore

\* C30: when saveProfile or deleteProfile fails while writing the file, the
\* visible profiles are the same as before the call: the cache never holds
\* a change that was not written.
C30_FailedWriteLeavesCache ==
  (prof.last.fn \in {"saveProfile", "deleteProfile"} /\ prof.last.threw = "write") =>
     /\ loadProfiles(prof) = prof.last.visibleBefore
     /\ prof.cache # <<>> =>
          customProfilesOf(prof.cache[1])
            = customProfilesOf(prof.last.visibleBefore)

=============================================================================
